---- MODULE Spec2Model ----
(***************************************************************************)
(* Model of the boutupgrader textual migration engine                      *)
(* (src/src/boutupgrader/bout_v5_macro_upgrader.py and the stand-alone     *)
(* script src/src/bout-v5-macro-upgrader.py).                              *)
(*                                                                         *)
(* A text is a sequence of tokens.  A token is a string of the source      *)
(* file: an identifier or a header name (made of word characters at both    *)
(* ends), a directive keyword with its '#' ("#ifdef": a non-word first      *)
(* character, a word last character), or a single non-word character       *)
(* (space, newline, quote, '<', '>', ';', '!').  The regular                *)
(* expressions of the code are evaluated on the tokens the way `re`        *)
(* evaluates them on the characters: a word boundary lies between two       *)
(* tokens when exactly one of the two characters that meet is a word        *)
(* character.                                                              *)
(*                                                                         *)
(* Python's None is the empty sequence and a value v that may be None is    *)
(* <<v>>; an exception leaves a function as [exc |-> name].                *)
(***************************************************************************)
EXTENDS Integers, Sequences, FiniteSets, TLC

VARIABLES
    pc,              \* position of the driver: "start", then the call made
    source,          \* the text handed to the function under check
    replacements,    \* the rule list handed to apply_fixes
    modified,        \* the text returned (the input again while nothing ran)
    raised,          \* None, or <<name>> of the exception that left the call
    printed,         \* what print() wrote, one entry per call
    macro_blocks,    \* fix_ifdefs: the block records of the scan
    lines_to_remove, \* fix_ifdefs: the line numbers deleted
    again,           \* the text returned by a second run on `modified`
    args,            \* the script's options: [files, force, quiet, patch_only]
    disk,            \* per filename: [contents, readable, writable]
    filenumber,      \* position of the script's loop in args.files
    patch,           \* the script's `patch` for the file in hand
    replied,         \* per filename: the replies input() returned, in order
    written,         \* the filenames whose file was written
    decided,         \* per filename decided so far: the patch it had
    returned_lines,  \* use_metric_accessors: the list of lines it returned
    include,         \* per header of the include directory: header or shim
    staged,          \* the git index holds staged changes
    unmoved_headers  \* fix_library_header_locations: the headers to move

textVars == <<pc, source, replacements, modified, raised, printed,
              macro_blocks, lines_to_remove, again>>

workflowVars == <<args, disk, filenumber, patch, replied, written, decided>>

restVars == <<returned_lines, include, staged, unmoved_headers>>

vars == <<textVars, workflowVars, restVars>>

----------------------------------------------------------------------------
(* Bounds of the model *)

MaxLines == 5
MaxLen == 6
MaxHeaderLines == 4
MaxFixLines == 4
MaxMacroLines == 5
MaxFiles == 2
MaxAsked == 2
MaxMetricLines == 5
MaxAccessorLines == 3
MaxHeaders == 3
MaxOrderLines == 3
MaxGeometryLines == 4
MaxRunFiles == 2

----------------------------------------------------------------------------
(* Tokens *)

None == <<>>
Some(v) == <<v>>

\* the script's main loop has not run: no options, no files
NoWorkflow ==
    /\ args = [files |-> <<>>, force |-> FALSE, quiet |-> FALSE,
               patch_only |-> FALSE]
    /\ disk = <<>>
    /\ filenumber = 0
    /\ patch = <<>>
    /\ replied = <<>>
    /\ written = {}
    /\ decided = <<>>

\* no list of lines returned yet, no include directory in hand
NoRest ==
    /\ returned_lines = <<>>
    /\ include = <<>>
    /\ staged = FALSE
    /\ unmoved_headers = <<>>

NL == "\n"
SP == " "
QUOTE == "\""

Directives == {"#ifdef", "#ifndef", "#if", "#else", "#endif", "#include"}
Punctuation ==
    {SP, NL, QUOTE, "<", ">", ";", "!", "->", ".", "=", "/", "(", ")", ",",
     "    ", "+"}
Whitespace == {SP, NL}

\* the first / the last character of the token is a word character (\w)
WordFirst(tok) == tok \notin Directives /\ tok \notin Punctuation
WordLast(tok) == tok \notin Punctuation

\* \b{old}\b at position i of s: the token is `old` and stands alone as a word
WholeWordAt(old, s, i) ==
    /\ s[i] = old
    /\ (i = 1 \/ ~WordLast(s[i - 1]))
    /\ (i = Len(s) \/ ~WordFirst(s[i + 1]))

----------------------------------------------------------------------------
(* str.splitlines() and "\n".join() *)

RECURSIVE SplitFrom(_, _, _, _)
SplitFrom(s, i, cur, acc) ==
    IF i > Len(s) THEN (IF cur = <<>> THEN acc ELSE Append(acc, cur))
    ELSE IF s[i] = NL THEN SplitFrom(s, i + 1, <<>>, Append(acc, cur))
    ELSE SplitFrom(s, i + 1, Append(cur, s[i]), acc)

splitlines(s) == SplitFrom(s, 1, <<>>, <<>>)

RECURSIVE join(_)
join(lines) ==
    IF lines = <<>> THEN <<>>
    ELSE IF Len(lines) = 1 THEN lines[1]
    ELSE lines[1] \o <<NL>> \o join(Tail(lines))

----------------------------------------------------------------------------
(* fix_ifdefs: the scan *)

RECURSIVE SkipSpace(_)
SkipSpace(toks) ==
    IF toks # <<>> /\ toks[1] \in Whitespace THEN SkipSpace(Tail(toks)) ELSE toks

\* re.match(r"#\s*(ifn?def)\s*(.*)", line): None, or <<group(1), group(2)>>
IfDefMatch(line) ==
    IF line # <<>> /\ line[1] \in {"#ifdef", "#ifndef"}
    THEN Some([type |-> IF line[1] = "#ifdef" THEN "ifdef" ELSE "ifndef",
               name |-> SkipSpace(Tail(line))])
    ELSE None

\* re.match(r"#\s*else", line) and re.match(r"#\s*endif", line)
ElseMatch(line) == line # <<>> /\ line[1] = "#else"
EndifMatch(line) == line # <<>> /\ line[1] = "#endif"

SetLast(blocks, key, val) ==
    [blocks EXCEPT ![Len(blocks)] =
        [k \in DOMAIN blocks[Len(blocks)] \cup {key} |->
            IF k = key THEN val ELSE blocks[Len(blocks)][k]]]

\* the body of the loop over the lines: st = [in_ifdef, macro_blocks]
ScanLine(old, st, linenumber, line) ==
    LET if_def == IfDefMatch(line)
        else_block == ElseMatch(line)
        endif == EndifMatch(line)
    IN  IF ~(if_def # None \/ else_block \/ endif) THEN st
        ELSE IF endif THEN
            LET dec == IF st.in_ifdef # None THEN Some(st.in_ifdef[1] - 1)
                       ELSE None
            IN  IF dec = Some(0)
                THEN [in_ifdef |-> None,
                      macro_blocks |-> SetLast(st.macro_blocks, "end", linenumber)]
                ELSE [st EXCEPT !.in_ifdef = dec]
        ELSE IF else_block THEN
            IF st.in_ifdef = Some(1)
            THEN [st EXCEPT !.macro_blocks = SetLast(@, "else", linenumber)]
            ELSE st
        ELSE IF if_def[1].name = <<old>> THEN
            [in_ifdef |-> Some(1),
             macro_blocks |-> Append(st.macro_blocks,
                 [start |-> linenumber, if_def_type |-> if_def[1].type])]
        ELSE IF st.in_ifdef # None THEN
            [st EXCEPT !.in_ifdef = Some(@[1] + 1)]
        ELSE st

RECURSIVE ScanFrom(_, _, _, _)
ScanFrom(old, source_lines, n, st) ==
    IF n >= Len(source_lines) THEN st
    ELSE ScanFrom(old, source_lines, n + 1,
                  ScanLine(old, st, n, source_lines[n + 1]))

Scan(old, source_lines) ==
    ScanFrom(old, source_lines, 0, [in_ifdef |-> None, macro_blocks |-> <<>>])

----------------------------------------------------------------------------
(* fix_ifdefs: the lines to remove, and the function *)

Return(v) == [value |-> v]
Raise(name) == [exc |-> name]
Raises(r) == "exc" \in DOMAIN r

\* set(block.values()), without the directive kind (no line number equals it)
BlockValues(block) == {block[k] : k \in DOMAIN block \ {"if_def_type"}}

\* BlockLinesToRemove with the #else branch of an #ifdef block kept and its
\* first branch deleted
BlockLinesToRemoveElseKept(block) ==
    IF block.if_def_type = "ifdef" THEN
        IF "else" \in DOMAIN block THEN
            IF "end" \in DOMAIN block
            THEN Return(BlockValues(block) \cup (block.start..(block["else"] - 1)))
            ELSE Raise("KeyError")
        ELSE Return(BlockValues(block))
    ELSE
        IF "end" \notin DOMAIN block THEN Raise("KeyError")
        ELSE Return(BlockValues(block) \cup
                    (block.start..((IF "else" \in DOMAIN block
                                    THEN block["else"] ELSE block["end"]) - 1)))

\* BlockLinesToRemove with the body of an #ifndef block left in place
BlockLinesToRemoveDirectivesOnly(block) ==
    IF block.if_def_type = "ifdef" THEN
        IF "else" \in DOMAIN block THEN
            IF "end" \in DOMAIN block
            THEN Return(BlockValues(block) \cup (block["else"]..(block["end"] - 1)))
            ELSE Raise("KeyError")
        ELSE Return(BlockValues(block))
    ELSE
        IF "end" \notin DOMAIN block THEN Raise("KeyError")
        ELSE Return(BlockValues(block))

\* what one block adds to lines_to_remove; block["end"] of a block that has
\* no "end" raises KeyError
BlockLinesToRemove(block) ==
    IF block.if_def_type = "ifdef" THEN
        IF "else" \in DOMAIN block THEN
            IF "end" \in DOMAIN block
            THEN Return(BlockValues(block) \cup (block["else"]..(block["end"] - 1)))
            ELSE Raise("KeyError")
        ELSE Return(BlockValues(block))
    ELSE
        IF "end" \notin DOMAIN block THEN Raise("KeyError")
        ELSE Return(BlockValues(block) \cup
                    (block.start..((IF "else" \in DOMAIN block
                                    THEN block["else"] ELSE block["end"]) - 1)))

LinesToRemove(blocks) ==
    IF \E b \in DOMAIN blocks : Raises(BlockLinesToRemove(blocks[b]))
    THEN Raise("KeyError")
    ELSE Return(UNION {BlockLinesToRemove(blocks[b]).value : b \in DOMAIN blocks})

RECURSIVE KeepLines(_, _, _)
KeepLines(source_lines, remove, n) ==
    IF n >= Len(source_lines) THEN <<>>
    ELSE (IF n \in remove THEN <<>> ELSE <<source_lines[n + 1]>>)
         \o KeepLines(source_lines, remove, n + 1)

\* fix_ifdefs with its locals: [result, macro_blocks, lines_to_remove]
FixIfdefsRun(old, src) ==
    LET source_lines == splitlines(src)
        blocks == Scan(old, source_lines).macro_blocks
        remove == LinesToRemove(blocks)
    IN  IF blocks = <<>>
        THEN [result |-> Return(src), macro_blocks |-> blocks,
              lines_to_remove |-> {}]
        ELSE IF Raises(remove)
        THEN [result |-> remove, macro_blocks |-> blocks, lines_to_remove |-> {}]
        ELSE [result |-> Return(join(KeepLines(source_lines, remove.value, 0))),
              macro_blocks |-> blocks, lines_to_remove |-> remove.value]

fix_ifdefs(old, src) == FixIfdefsRun(old, src).result

----------------------------------------------------------------------------
(* fix_ifdefs of the stand-alone script bout-v5-macro-upgrader.py *)

\* re.match(r"#\s*ifdef\s*(.*)", line): None, or <<group(1)>>
ScriptIfDefMatch(line) ==
    IF line # <<>> /\ line[1] = "#ifdef" THEN Some(SkipSpace(Tail(line)))
    ELSE None

\* the body of the loop: st = [in_ifdef, lines_to_pop]
ScriptScanLine(old, st, linenumber, line) ==
    LET if_def == ScriptIfDefMatch(line)
        endif == EndifMatch(line)
    IN  IF ~(if_def # None \/ endif) THEN st
        ELSE IF endif THEN
            LET dec == IF st.in_ifdef # None THEN Some(st.in_ifdef[1] - 1)
                       ELSE None
            IN  IF dec = Some(0)
                THEN [in_ifdef |-> None,
                      lines_to_pop |-> Append(st.lines_to_pop, linenumber)]
                ELSE [st EXCEPT !.in_ifdef = dec]
        ELSE IF if_def[1] = <<old>> THEN
            [in_ifdef |-> Some(1),
             lines_to_pop |-> Append(st.lines_to_pop, linenumber)]
        ELSE IF st.in_ifdef # None THEN
            [st EXCEPT !.in_ifdef = Some(@[1] + 1)]
        ELSE st

RECURSIVE ScriptScanFrom(_, _, _, _)
ScriptScanFrom(old, source_lines, n, st) ==
    IF n >= Len(source_lines) THEN st
    ELSE ScriptScanFrom(old, source_lines, n + 1,
                        ScriptScanLine(old, st, n, source_lines[n + 1]))

\* the script's fix_ifdefs with its local: [result, lines_to_pop]
ScriptFixIfdefsRun(old, src) ==
    LET source_lines == splitlines(src)
        pop == ScriptScanFrom(old, source_lines, 0,
                   [in_ifdef |-> None, lines_to_pop |-> <<>>]).lines_to_pop
        popped == {pop[k] : k \in DOMAIN pop}
    IN  [result |-> Return(join(KeepLines(source_lines, popped, 0))),
         lines_to_pop |-> pop]

script_fix_ifdefs(old, src) == ScriptFixIfdefsRun(old, src).result

----------------------------------------------------------------------------
(* fix_replacement: re.sub(rf'([^"_])\b{old}\b([^"_])', rf"\1{new}\2", s)   *)

\* [^"_] on the last character of the token before `old`, with the \b that
\* follows it: a character that is no word character and no quote
LeadCharAnyButUnderscore(tok) == ~WordLast(tok)

LeadChar(tok) == ~WordLast(tok) /\ tok \notin {QUOTE, "_"}

\* \b and [^"_] on the first character of the token after `old`
TrailChar(tok) == ~WordFirst(tok) /\ tok \notin {QUOTE, "_"}

\* the pattern matches with its first character in token i
ReplacementMatchAt(old, s, i) ==
    /\ i + 2 <= Len(s)
    /\ LeadChar(s[i])
    /\ s[i + 1] = old
    /\ TrailChar(s[i + 2])

\* re.sub: leftmost matches that do not overlap, the search resuming after
\* the last character of the match
RECURSIVE ReplaceFrom(_, _, _, _)
ReplaceFrom(old, new, s, i) ==
    IF i > Len(s) THEN <<>>
    ELSE IF ReplacementMatchAt(old, s, i)
    THEN <<s[i], new, s[i + 2]>> \o ReplaceFrom(old, new, s, i + 3)
    ELSE <<s[i]>> \o ReplaceFrom(old, new, s, i + 1)

fix_replacement(old, new, src) == ReplaceFrom(old, new, src, 1)

----------------------------------------------------------------------------
(* fix_include_version_header *)

\* no newline among the tokens a..b of s
SameLine(s, a, b) == \A k \in a..b : s[k] # NL

\* re.search(rf'^#\s*include.*(<|"){header}(>|")', source, re.MULTILINE)
HeaderIncludedAngleOnly(src, header) ==
    \E j \in 2..(Len(src) - 2) :
        /\ src[j + 1] = header
        /\ src[j] = "<"
        /\ src[j + 2] = ">"
        /\ \E i \in 1..(j - 1) :
               /\ src[i] = "#include"
               /\ (i = 1 \/ src[i - 1] = NL)
               /\ SameLine(src, i, j + 2)

HeaderIncluded(src, header) ==
    \E j \in 2..(Len(src) - 2) :
        /\ src[j + 1] = header
        /\ src[j] \in {"<", QUOTE}
        /\ src[j + 2] \in {">", QUOTE}
        /\ \E i \in 1..(j - 1) :
               /\ src[i] = "#include"
               /\ (i = 1 \/ src[i - 1] = NL)
               /\ SameLine(src, i, j + 2)

\* re.search(rf"\b{old}\b", source)
MacroFound(old, src) == \E i \in 1..Len(src) : WholeWordAt(old, src, i)

\* the header names that hold "bout/" or "physicsmodel"
LibraryHeaders ==
    {"bout/version.hxx", "bout/revision.hxx", "bout/build_config.hxx",
     "bout/mesh.hxx", "bout/physicsmodel.hxx", "physicsmodel.hxx"}

\* re.match(r"^#\s*include.*bout/", line) or
\* re.match(r"^#\s*include.*physicsmodel", line)
LibraryInclude(line) ==
    /\ line # <<>>
    /\ line[1] = "#include"
    /\ \E k \in 2..Len(line) : line[k] \in LibraryHeaders

\* the line numbers collected in `includes`
Includes(source_lines) ==
    {n \in 0..(Len(source_lines) - 1) : LibraryInclude(source_lines[n + 1])}

Least(S) == CHOOSE m \in S : \A n \in S : m <= n

\* includes[-1]: the list is appended to in line order
Max(S) == CHOOSE m \in S : \A n \in S : n <= m

\* list.insert(at, line)
Insert(lines, at, line) ==
    SubSeq(lines, 1, at) \o <<line>> \o SubSeq(lines, at + 1, Len(lines))

IncludeLine(header) == <<"#include", SP, QUOTE, header, QUOTE>>

\* `headers` is the list the function works on after lines 182-183
fix_include_version_header(old, headers, src) ==
    IF \E h \in DOMAIN headers : HeaderIncluded(src, headers[h]) THEN Return(src)
    ELSE IF ~MacroFound(old, src) THEN Return(src)
    ELSE LET source_lines == splitlines(src)
             includes == Includes(source_lines)
             last_include == IF includes # {} THEN Max(includes) + 1 ELSE 0
         IN  IF headers = <<>> THEN Raise("IndexError")
             ELSE Return(join(Insert(source_lines, last_include,
                                     IncludeLine(headers[1]))))

----------------------------------------------------------------------------
(* fix_always_defined_macros *)

RECURSIVE SkipSpaceFrom(_, _)
SkipSpaceFrom(s, j) ==
    IF j <= Len(s) /\ s[j] \in Whitespace THEN SkipSpaceFrom(s, j + 1) ELSE j

\* rf"{directive}\s+{old}\b" matches at token i: 0, or the index of `old`
DirectiveMatchAt(directive, old, s, i) ==
    LET j == SkipSpaceFrom(s, i + 1)
    IN  IF /\ s[i] = directive
           /\ j > i + 1
           /\ j <= Len(s)
           /\ s[j] = old
           /\ (j = Len(s) \/ ~WordFirst(s[j + 1]))
        THEN j ELSE 0

RECURSIVE SubDirectiveFrom(_, _, _, _, _)
SubDirectiveFrom(directive, old, repl, s, i) ==
    IF i > Len(s) THEN <<>>
    ELSE IF DirectiveMatchAt(directive, old, s, i) # 0
    THEN repl \o SubDirectiveFrom(directive, old, repl, s,
                                  DirectiveMatchAt(directive, old, s, i) + 1)
    ELSE <<s[i]>> \o SubDirectiveFrom(directive, old, repl, s, i + 1)

\* fix_always_defined_macros with #ifndef rewritten like #ifdef
AlwaysDefinedDroppingNegation(old, new, src) ==
    LET new_source == SubDirectiveFrom("#ifdef", old, <<"#if", SP, new>>, src, 1)
    IN  SubDirectiveFrom("#ifndef", old, <<"#if", SP, new>>, new_source, 1)

fix_always_defined_macros(old, new, src) ==
    LET new_source == SubDirectiveFrom("#ifdef", old, <<"#if", SP, new>>, src, 1)
    IN  SubDirectiveFrom("#ifndef", old, <<"#if", SP, "!", new>>, new_source, 1)

----------------------------------------------------------------------------
(* apply_fixes *)

Diagnostic(old) == <<old, " has been removed, please delete from your code">>

\* the conditional step with both alternatives run for an always-defined
\* rule
FixConditionalsBoth(replacement, text) ==
    IF replacement.always_defined
    THEN fix_ifdefs(replacement.old,
                    fix_always_defined_macros(replacement.old,
                                              replacement.new[1], text))
    ELSE Return(text)

\* the conditional step of one rule
FixConditionals(replacement, text) ==
    IF replacement.macro /\ replacement.always_defined
    THEN Return(fix_always_defined_macros(replacement.old, replacement.new[1], text))
    ELSE IF replacement.always_defined
    THEN fix_ifdefs(replacement.old, text)
    ELSE Return(text)

\* ApplyReplacement with the blocks on a removed macro resolved
ApplyReplacementResolvingRemoved(replacement, st) ==
    IF replacement.new = None
    THEN [st EXCEPT !.printed = Append(@, Diagnostic(replacement.old)),
                    !.modified = IF Raises(fix_ifdefs(replacement.old, @)) THEN @
                                 ELSE fix_ifdefs(replacement.old, @).value]
    ELSE LET included == fix_include_version_header(
                             replacement.old, replacement.headers, st.modified)
         IN  IF Raises(included) THEN [st EXCEPT !.raised = Some(included.exc)]
             ELSE LET fixed == FixConditionals(replacement, included.value)
                  IN  IF Raises(fixed) THEN [st EXCEPT !.raised = Some(fixed.exc)]
                      ELSE [st EXCEPT !.modified =
                               fix_replacement(replacement.old,
                                               replacement.new[1], fixed.value)]

\* ApplyReplacement with a removed macro ending the run
ApplyReplacementAborting(replacement, st) ==
    IF replacement.new = None
    THEN [st EXCEPT !.printed = Append(@, Diagnostic(replacement.old)),
                    !.raised = Some("SystemExit")]
    ELSE LET included == fix_include_version_header(
                             replacement.old, replacement.headers, st.modified)
         IN  IF Raises(included) THEN [st EXCEPT !.raised = Some(included.exc)]
             ELSE LET fixed == FixConditionals(replacement, included.value)
                  IN  IF Raises(fixed) THEN [st EXCEPT !.raised = Some(fixed.exc)]
                      ELSE [st EXCEPT !.modified =
                               fix_replacement(replacement.old,
                                               replacement.new[1], fixed.value)]

\* the body of the loop: st = [modified, printed, raised]
ApplyReplacement(replacement, st) ==
    IF replacement.new = None
    THEN [st EXCEPT !.printed = Append(@, Diagnostic(replacement.old))]
    ELSE LET included == fix_include_version_header(
                             replacement.old, replacement.headers, st.modified)
         IN  IF Raises(included) THEN [st EXCEPT !.raised = Some(included.exc)]
             ELSE LET fixed == FixConditionals(replacement, included.value)
                  IN  IF Raises(fixed) THEN [st EXCEPT !.raised = Some(fixed.exc)]
                      ELSE [st EXCEPT !.modified =
                               fix_replacement(replacement.old,
                                               replacement.new[1], fixed.value)]

RECURSIVE ApplyFrom(_, _, _)
ApplyFrom(rules, i, st) ==
    IF i > Len(rules) \/ st.raised # None THEN st
    ELSE ApplyFrom(rules, i + 1, ApplyReplacement(rules[i], st))

\* apply_fixes with what it printed: [modified, printed, raised]
apply_fixes(rules, src) ==
    ApplyFrom(rules, 1, [modified |-> src, printed |-> <<>>, raised |-> None])

----------------------------------------------------------------------------
(* Specifications SpecIfdefs and SpecScript: fix_ifdefs of the module and   *)
(* of the script, applied to every text of at most MaxLines lines drawn     *)
(* from the conditional directives on the target macro, on another macro,   *)
(* #if, #else, #endif, and a line of code.                                  *)

Target == "OLD"
Other == "OTHER"

IfdefT == <<"#ifdef", SP, Target>>
IfndefT == <<"#ifndef", SP, Target>>
IfdefO == <<"#ifdef", SP, Other>>
IfndefO == <<"#ifndef", SP, Other>>
IfExpr == <<"#if", SP, Other>>
ElseLine == <<"#else">>
EndifLine == <<"#endif">>
CodeLine == <<"foo", ";">>

IfdefLineKinds ==
    {IfdefT, IfndefT, IfdefO, IfndefO, IfExpr, ElseLine, EndifLine, CodeLine}

\* the file text of a list of lines, each ended by a newline
FileOf(lines) == IF lines = <<>> THEN <<>> ELSE join(lines) \o <<NL>>

InitIfdefs ==
    /\ pc = "start"
    /\ \E n \in 0..MaxLines : \E lines \in [1..n -> IfdefLineKinds] :
           source = FileOf(lines)
    /\ replacements = <<>>
    /\ modified = source
    /\ raised = None
    /\ printed = <<>>
    /\ macro_blocks = <<>>
    /\ lines_to_remove = {}
    /\ again = None
    /\ NoRest
    /\ NoWorkflow

CallFixIfdefs ==
    /\ pc = "start"
    /\ \E run \in {FixIfdefsRun(Target, source)} :
           /\ pc' = "fix_ifdefs"
           /\ raised' = IF Raises(run.result) THEN Some(run.result.exc) ELSE None
           /\ modified' = IF Raises(run.result) THEN source ELSE run.result.value
           /\ macro_blocks' = run.macro_blocks
           /\ lines_to_remove' = run.lines_to_remove
    /\ UNCHANGED <<source, replacements, printed, again>>
    /\ UNCHANGED workflowVars
    /\ UNCHANGED restVars

CallScriptFixIfdefs ==
    /\ pc = "start"
    /\ \E run \in {ScriptFixIfdefsRun(Target, source)} :
           /\ pc' = "script_fix_ifdefs"
           /\ raised' = None
           /\ modified' = run.result.value
           /\ lines_to_remove' = {run.lines_to_pop[k] : k \in DOMAIN run.lines_to_pop}
    /\ UNCHANGED <<source, replacements, printed, macro_blocks, again>>
    /\ UNCHANGED workflowVars
    /\ UNCHANGED restVars

SpecIfdefs == InitIfdefs /\ [][CallFixIfdefs]_vars

SpecScript == InitIfdefs /\ [][CallScriptFixIfdefs]_vars

----------------------------------------------------------------------------
(* The conditional blocks of a list of lines L, read off the text itself:   *)
(* what the claims about fix_ifdefs are stated against.  Lines are numbered *)
(* from 0.                                                                  *)

LineNumbers(L) == 0..(Len(L) - 1)
LineAt(L, k) == L[k + 1]

IsOpener(L, k) == LineAt(L, k) # <<>> /\ LineAt(L, k)[1] \in {"#ifdef", "#ifndef", "#if"}
IsTargetOpener(L, k) == LineAt(L, k) \in {IfdefT, IfndefT}
IsEndif(L, k) == LineAt(L, k) = EndifLine
IsElse(L, k) == LineAt(L, k) = ElseLine

\* openers minus #endif lines among the lines a..b
Balance(L, a, b) ==
    Cardinality({k \in a..b : IsOpener(L, k)})
        - Cardinality({k \in a..b : IsEndif(L, k)})

\* line e is the #endif that closes the directive of line s
Closes(L, s, e) ==
    /\ e > s
    /\ IsEndif(L, e)
    /\ Balance(L, s + 1, e) = -1
    /\ \A k \in (s + 1)..(e - 1) : Balance(L, s + 1, k) >= 0

Terminated(L, s) == \E e \in LineNumbers(L) : Closes(L, s, e)

\* the #else lines of the block s..e itself, not of a block nested in it
OwnElse(L, s, e) ==
    {k \in (s + 1)..(e - 1) : IsElse(L, k) /\ Balance(L, s + 1, k) = 0}

\* s..e is a terminated block on the target macro whose body holds, besides
\* plain lines, only well-nested #ifdef/#ifndef blocks on other macros
SimpleBlock(L, s, e) ==
    /\ IsTargetOpener(L, s)
    /\ Closes(L, s, e)
    /\ \A k \in (s + 1)..(e - 1) :
           ~IsTargetOpener(L, k) /\ LineAt(L, k) # IfExpr
    /\ Cardinality(OwnElse(L, s, e)) <= 1

SimpleBlocks(L, opener) ==
    {blk \in LineNumbers(L) \X LineNumbers(L) :
        LineAt(L, blk[1]) = opener /\ SimpleBlock(L, blk[1], blk[2])}

\* from the block's own #else (from #endif when it has none) to its #endif
ElseToEnd(L, s, e) == IF OwnElse(L, s, e) = {} THEN {e}
                      ELSE (CHOOSE k \in OwnElse(L, s, e) : TRUE)..e

\* from the block's directive to its own #else (to #endif when it has none)
StartToElse(L, s, e) == IF OwnElse(L, s, e) = {} THEN s..e
                        ELSE s..(CHOOSE k \in OwnElse(L, s, e) : TRUE)

\* the block has an #else and a line in each branch
TwoBranches(L, s, e) ==
    \E k \in OwnElse(L, s, e) : k > s + 1 /\ e > k + 1

Returned == pc = "fix_ifdefs" /\ raised = None

\* every #ifdef on the target macro opens a simple block
ScriptInput(L) ==
    \A s \in LineNumbers(L) : LineAt(L, s) = IfdefT =>
        \E e \in LineNumbers(L) : SimpleBlock(L, s, e)

----------------------------------------------------------------------------
(* Claims on fix_ifdefs *)

\* C1 (as stated, for the script's fix_ifdefs): when every `#ifdef T` block
\* of the source is terminated and holds only well-nested #ifdef/#ifndef
\* blocks on other macros, the #ifdef line and the #endif that matches it,
\* and no line of a nested block, are what the function takes out.
C1_ScriptTakesMatchingEndif ==
    pc = "script_fix_ifdefs" =>
        LET L == splitlines(source)
        IN  ScriptInput(L) =>
                modified = join(KeepLines(L,
                    UNION {{blk[1], blk[2]} : blk \in SimpleBlocks(L, IfdefT)}, 0))

\* C1 (the module's fix_ifdefs): the record of a simple block ends at the
\* #endif that matches its directive, and a line of a nested block is
\* deleted exactly when the branch that holds it is.
C1_ModuleTakesMatchingEndif ==
    Returned =>
        LET L == splitlines(source)
        IN  \A blk \in SimpleBlocks(L, IfdefT) \cup SimpleBlocks(L, IfndefT) :
                /\ \E b \in DOMAIN macro_blocks :
                       /\ macro_blocks[b].start = blk[1]
                       /\ "end" \in DOMAIN macro_blocks[b]
                       /\ macro_blocks[b]["end"] = blk[2]
                /\ \A k \in (blk[1] + 1)..(blk[2] - 1) :
                       (k \in lines_to_remove) <=>
                           IF LineAt(L, blk[1]) = IfdefT
                           THEN k \in ElseToEnd(L, blk[1], blk[2])
                           ELSE k \in StartToElse(L, blk[1], blk[2])

C4_UnterminatedBlockUntouched ==
    pc = "fix_ifdefs" =>
        LET L == splitlines(source)
        IN  \A s \in LineNumbers(L) :
                (IsTargetOpener(L, s) /\ ~Terminated(L, s)) =>
                    /\ raised = None
                    /\ \A k \in LineNumbers(L) : k >= s => k \notin lines_to_remove

\* the lines of the terminated block s..e on the target macro that are no
\* longer compiled once the macro is always defined, with the block's own
\* directive lines
NoLongerCompiled(L, s, e) ==
    IF LineAt(L, s) = IfdefT THEN {s} \cup ElseToEnd(L, s, e)
    ELSE StartToElse(L, s, e) \cup {e}

\* C20: fix_ifdefs returns the lines of the source, in order, without the
\* lines that the terminated blocks on the target macro no longer compile
\* and without the directive lines of those blocks: an #ifdef block keeps
\* its first branch, an #ifndef block its #else branch.
C20_RemovesExactlyDeadCode ==
    pc = "fix_ifdefs" =>
        LET L == splitlines(source)
            dead == UNION {NoLongerCompiled(L, blk[1], blk[2]) :
                              blk \in {b \in LineNumbers(L) \X LineNumbers(L) :
                                          /\ IsTargetOpener(L, b[1])
                                          /\ Closes(L, b[1], b[2])}}
        IN  /\ raised = None
            /\ splitlines(modified) = KeepLines(L, dead, 0)

\* line k lies in the block that the directive of line s opens, at the
\* depth of the block itself
AtOwnDepth(L, s, k) ==
    /\ k > s
    /\ Balance(L, s + 1, k) = 0
    /\ \A j \in (s + 1)..(k - 1) : Balance(L, s + 1, j) >= 0

\* C21: every conditional nested in a tracked block, `#if` as well as
\* #ifdef and #ifndef, raises the depth and its #endif lowers it, so the
\* end line of a block record is the #endif that closes the tracked
\* directive and its else line is an #else of the tracked directive itself.
C21_RecordSetByOwnDirectives ==
    pc = "fix_ifdefs" =>
        LET L == splitlines(source)
        IN  \A b \in DOMAIN macro_blocks :
                /\ "end" \in DOMAIN macro_blocks[b] =>
                       Closes(L, macro_blocks[b].start, macro_blocks[b]["end"])
                /\ "else" \in DOMAIN macro_blocks[b] =>
                       /\ IsElse(L, macro_blocks[b]["else"])
                       /\ AtOwnDepth(L, macro_blocks[b].start,
                                     macro_blocks[b]["else"])

\* the conditional directives of L are balanced and well nested: every
\* #endif and every #else has its opener, a block has one #else at most,
\* and every opener has its #endif
WellNested(L) ==
    /\ Balance(L, 0, Len(L) - 1) = 0
    /\ \A k \in LineNumbers(L) : Balance(L, 0, k) >= 0
    /\ \A k \in LineNumbers(L) :
           IsElse(L, k) =>
               /\ Balance(L, 0, k) >= 1
               /\ \A j \in 0..(k - 1) :
                      (IsElse(L, j) /\ Balance(L, j, k) = 0) =>
                          \E i \in j..k : Balance(L, j, i) < 0

\* C28 (as stated): when the directives of the source are balanced and
\* well nested, fix_ifdefs raises nothing and the directives of the text
\* it returns are balanced and well nested.
C28_BalancePreserved ==
    (pc = "fix_ifdefs" /\ WellNested(splitlines(source))) =>
        /\ raised = None
        /\ WellNested(splitlines(modified))

----------------------------------------------------------------------------
(* Specification SpecRepl: fix_replacement applied to every text of at     *)
(* most MaxLen tokens, and applied again to the text it returned.           *)

Old == "OLD"
New == "NEW"

ReplTokens == {Old, "foo", "_", QUOTE, SP}

InitRepl ==
    /\ pc = "start"
    /\ \E n \in 0..MaxLen : source \in [1..n -> ReplTokens]
    /\ replacements = <<>>
    /\ modified = source
    /\ raised = None
    /\ printed = <<>>
    /\ macro_blocks = <<>>
    /\ lines_to_remove = {}
    /\ again = None
    /\ NoRest
    /\ NoWorkflow

CallFixReplacement ==
    /\ pc = "start"
    /\ pc' = "fix_replacement"
    /\ modified' = fix_replacement(Old, New, source)
    /\ UNCHANGED <<source, replacements, raised, printed, macro_blocks,
                   lines_to_remove, again>>
    /\ UNCHANGED workflowVars
    /\ UNCHANGED restVars

CallFixReplacementAgain ==
    /\ pc = "fix_replacement"
    /\ pc' = "fix_replacement again"
    /\ again' = Some(fix_replacement(Old, New, modified))
    /\ UNCHANGED <<source, replacements, modified, raised, printed,
                   macro_blocks, lines_to_remove>>
    /\ UNCHANGED workflowVars
    /\ UNCHANGED restVars

NextRepl == CallFixReplacement \/ CallFixReplacementAgain

SpecRepl == InitRepl /\ [][NextRepl]_vars

----------------------------------------------------------------------------
(* Claims on fix_replacement *)

Replaced == pc \in {"fix_replacement", "fix_replacement again"}

QuoteBefore(s, i) == i > 1 /\ s[i - 1] = QUOTE
QuoteAfter(s, i) == i < Len(s) /\ s[i + 1] = QUOTE

\* token i lies between an opening and a closing quote
InsideQuotes(s, i) ==
    /\ s[i] # QUOTE
    /\ Cardinality({k \in 1..(i - 1) : s[k] = QUOTE}) % 2 = 1
    /\ \E k \in (i + 1)..Len(s) : s[k] = QUOTE

\* C7 (as stated): every whole-word occurrence of `old` that no quote
\* touches is replaced, wherever it stands in the text, and every other
\* token is unchanged.
C7_EveryOccurrenceReplaced ==
    Replaced =>
        modified = [i \in 1..Len(source) |->
                       IF /\ WholeWordAt(Old, source, i)
                          /\ ~QuoteBefore(source, i)
                          /\ ~QuoteAfter(source, i)
                       THEN New ELSE source[i]]

\* C8 (as stated): no token between an opening and a closing quote is
\* changed, whether or not it touches the quotes.
C8_QuotedRegionUnchanged ==
    Replaced =>
        /\ Len(modified) = Len(source)
        /\ \A i \in 1..Len(source) :
               InsideQuotes(source, i) => modified[i] = source[i]

\* C8 (amended): an occurrence of `old` that a quote immediately precedes
\* or follows is never changed and no token other than `old` is changed;
\* an occurrence with a non-word, non-quote character on each side is
\* replaced, inside a quoted region too, unless the character before it
\* is the one that follows another occurrence.
C8_QuoteAdjacentUnchanged ==
    Replaced =>
        /\ Len(modified) = Len(source)
        /\ \A i \in 1..Len(source) :
               /\ (source[i] # Old \/ QuoteBefore(source, i) \/ QuoteAfter(source, i))
                      => modified[i] = source[i]
               /\ ( /\ source[i] = Old
                    /\ 1 < i /\ i < Len(source)
                    /\ source[i - 1] \in Punctuation \ {QUOTE}
                    /\ source[i + 1] \in Punctuation \ {QUOTE}
                    /\ (i > 2 => source[i - 2] # Old) )
                      => modified[i] = New

\* C8 witness: the text holds `"OLD"` and an unquoted OLD, and only the
\* unquoted one was replaced
C8_Witness ==
    /\ Replaced
    /\ \E i, j \in 1..Len(source) :
           /\ source[i] = Old /\ QuoteBefore(source, i) /\ QuoteAfter(source, i)
           /\ modified[i] = Old
           /\ source[j] = Old /\ ~InsideQuotes(source, j) /\ modified[j] = New

\* C9 (as stated, for fix_replacement alone): a second run on the text the
\* first run returned changes nothing.
C9_ReplacementIdempotent ==
    pc = "fix_replacement again" => again = Some(modified)

----------------------------------------------------------------------------
(* Specification SpecHeader: fix_include_version_header applied, for the    *)
(* candidate headers of the BOUT_VERSION rule, to every text of at most     *)
(* MaxHeaderLines lines drawn from includes and uses of the macro.          *)

CandidateHeaders == <<"bout/version.hxx", "bout.hxx">>

IncludeAngled(header) == <<"#include", SP, "<", header, ">">>
IncludeQuoted(header) == <<"#include", SP, QUOTE, header, QUOTE>>

CandidateIncludes ==
    {IncludeAngled(CandidateHeaders[1]), IncludeQuoted(CandidateHeaders[1]),
     IncludeAngled(CandidateHeaders[2]), IncludeQuoted(CandidateHeaders[2])}

UseOld == <<"return", SP, Old, ";">>
LongerName == <<"return", SP, Old, "_", "foo", ";">>

HeaderLineKinds ==
    CandidateIncludes \cup
    {IncludeAngled("bout/mesh.hxx"), IncludeQuoted("physicsmodel.hxx"),
     IncludeAngled("cmath"), UseOld, LongerName, CodeLine}

InitHeader ==
    /\ pc = "start"
    /\ \E n \in 0..MaxHeaderLines : \E lines \in [1..n -> HeaderLineKinds] :
           source = FileOf(lines)
    /\ replacements = <<>>
    /\ modified = source
    /\ raised = None
    /\ printed = <<>>
    /\ macro_blocks = <<>>
    /\ lines_to_remove = {}
    /\ again = None
    /\ NoRest
    /\ NoWorkflow

CallFixIncludeVersionHeader ==
    /\ pc = "start"
    /\ \E r \in {fix_include_version_header(Old, CandidateHeaders, source)} :
           /\ pc' = "fix_include_version_header"
           /\ raised' = IF Raises(r) THEN Some(r.exc) ELSE None
           /\ modified' = IF Raises(r) THEN source ELSE r.value
    /\ UNCHANGED <<source, replacements, printed, macro_blocks,
                   lines_to_remove, again>>
    /\ UNCHANGED workflowVars
    /\ UNCHANGED restVars

SpecHeader == InitHeader /\ [][CallFixIncludeVersionHeader]_vars

\* a line of L includes one of the candidate headers, in either form
AlreadyIncluded(L) == \E k \in DOMAIN L : L[k] \in CandidateIncludes

\* a line of L names the macro as a word of its own
MacroOccurs(L) == \E k \in DOMAIN L : L[k] = UseOld

\* C10: when a candidate header is already included, in angle-bracket or in
\* quoted form, or the macro does not occur as a whole word, the text
\* returned is the source, token for token.
C10_HeaderUnchanged ==
    pc = "fix_include_version_header" =>
        LET L == splitlines(source)
        IN  (AlreadyIncluded(L) \/ ~MacroOccurs(L)) =>
                (raised = None /\ modified = source)

\* C10 witness: the macro is used and the second candidate header is
\* included in quoted form; the call returned the source
C10_Witness ==
    /\ pc = "fix_include_version_header"
    /\ \E k \in DOMAIN splitlines(source) :
           splitlines(source)[k] = IncludeQuoted(CandidateHeaders[2])
    /\ MacroOccurs(splitlines(source))
    /\ modified = source

\* a line of L is an include of a library-style header
LibraryStyle(line) ==
    line \in {IncludeAngled("bout/mesh.hxx"), IncludeQuoted("physicsmodel.hxx")}

\* the number of lines of L up to and including the last library-style
\* include, 0 when L has none
AfterLastLibraryInclude(L) ==
    CHOOSE p \in 0..Len(L) :
        /\ (p = 0 \/ LibraryStyle(L[p]))
        /\ \A k \in (p + 1)..Len(L) : ~LibraryStyle(L[k])

\* C11: when the macro occurs as a whole word and no candidate header is
\* included, the lines returned are the lines of the source with exactly
\* one line added, a quoted include of the first candidate header, right
\* after the last library-style include, or first when there is none.
C11_IncludeInsertedAfterLastLibraryInclude ==
    pc = "fix_include_version_header" =>
        LET L == splitlines(source)
            M == splitlines(modified)
            p == AfterLastLibraryInclude(L)
        IN  (MacroOccurs(L) /\ ~AlreadyIncluded(L)) =>
                /\ raised = None
                /\ Len(M) = Len(L) + 1
                /\ M[p + 1] = IncludeQuoted(CandidateHeaders[1])
                /\ \A k \in 1..p : M[k] = L[k]
                /\ \A k \in (p + 1)..Len(L) : M[k + 1] = L[k]

\* C11 witness: two library-style includes with the macro used between
\* them, and the include added after the second
C11_Witness ==
    /\ pc = "fix_include_version_header"
    /\ LET L == splitlines(source)
           M == splitlines(modified)
       IN  /\ Len(L) = 3 /\ Len(M) = 4
           /\ LibraryStyle(L[1]) /\ L[2] = UseOld /\ LibraryStyle(L[3])
           /\ M[4] = IncludeQuoted(CandidateHeaders[1])

\* C11 witness of the other case: no library-style include, the include
\* is the first line
C11_WitnessTop ==
    /\ pc = "fix_include_version_header"
    /\ LET L == splitlines(source)
           M == splitlines(modified)
       IN  /\ MacroOccurs(L) /\ AfterLastLibraryInclude(L) = 0
           /\ Len(M) = Len(L) + 1
           /\ M[1] = IncludeQuoted(CandidateHeaders[1])

\* C29 (as stated): the lines returned are the lines of the source, byte
\* for byte and in order, with at most the one include line added, and a
\* source that ends with a newline is returned with a newline at its end.
C29_FinalNewlineKept ==
    pc = "fix_include_version_header" =>
        LET L == splitlines(source)
            M == splitlines(modified)
        IN  /\ raised = None
            /\ \/ M = L
               \/ \E p \in 0..Len(L) :
                      M = Insert(L, p, IncludeQuoted(CandidateHeaders[1]))
            /\ (source # <<>> /\ source[Len(source)] = NL) =>
                   (modified # <<>> /\ modified[Len(modified)] = NL)

----------------------------------------------------------------------------
(* Specification SpecFixes: apply_fixes applied, for every list of distinct *)
(* rules among a variable rule, a removed macro and a renamed macro, to     *)
(* every text of at most MaxFixLines lines.                                 *)

RuleVariable ==
    [old |-> Old, new |-> Some(New), headers |-> CandidateHeaders,
     macro |-> FALSE, always_defined |-> TRUE]

RuleRemoved ==
    [old |-> "REMOVED", new |-> None, headers |-> <<>>,
     macro |-> TRUE, always_defined |-> TRUE]

RuleMacro ==
    [old |-> "OLDMACRO", new |-> Some("NEWFLAG"),
     headers |-> <<"bout/build_config.hxx">>,
     macro |-> TRUE, always_defined |-> TRUE]

Rules == {RuleVariable, RuleRemoved, RuleMacro}

\* the lists of distinct rules
RuleLists ==
    {rl \in UNION {[1..n -> Rules] : n \in 0..Cardinality(Rules)} :
        \A a, b \in DOMAIN rl : a # b => rl[a] # rl[b]}

IfdefRemoved == <<"#ifdef", SP, "REMOVED">>
BarLine == <<"bar", ";">>

FixLineKinds == {IfdefRemoved, IfdefT, EndifLine, CodeLine, BarLine, UseOld}

InitFixes ==
    /\ pc = "start"
    /\ \E n \in 0..MaxFixLines : \E lines \in [1..n -> FixLineKinds] :
           source = FileOf(lines)
    /\ replacements \in RuleLists
    /\ modified = source
    /\ raised = None
    /\ printed = <<>>
    /\ macro_blocks = <<>>
    /\ lines_to_remove = {}
    /\ again = None
    /\ NoRest
    /\ NoWorkflow

CallApplyFixes ==
    /\ pc = "start"
    /\ \E st \in {apply_fixes(replacements, source)} :
           /\ pc' = "apply_fixes"
           /\ modified' = st.modified
           /\ printed' = st.printed
           /\ raised' = st.raised
    /\ UNCHANGED <<source, replacements, macro_blocks, lines_to_remove, again>>
    /\ UNCHANGED workflowVars
    /\ UNCHANGED restVars

SpecFixes == InitFixes /\ [][CallApplyFixes]_vars

----------------------------------------------------------------------------
(* Claims on apply_fixes *)

\* #ifdef REMOVED / foo(); / #endif / bar();
ScenarioB == FileOf(<<IfdefRemoved, CodeLine, EndifLine, BarLine>>)

IsRemoval(rule) == rule.new = None
NotRemoval(rule) == rule.new # None

\* the diagnostics of the removal-only rules of a list, in order
RemovalDiagnostics(rules) ==
    [k \in 1..Len(SelectSeq(rules, IsRemoval)) |->
        Diagnostic(SelectSeq(rules, IsRemoval)[k].old)]

\* C5 (as stated): with the removal-only rule alone, the source
\* `#ifdef REMOVED / foo(); / #endif / bar();` comes back as `bar();` with
\* its newline, a diagnostic is printed and nothing is raised.
C5_RemovedBlockDeleted ==
    (pc = "apply_fixes" /\ replacements = <<RuleRemoved>> /\ source = ScenarioB) =>
        /\ modified = FileOf(<<BarLine>>)
        /\ printed = <<Diagnostic("REMOVED")>>
        /\ raised = None

\* C5 (amended): with the removal-only rule alone, a diagnostic naming the
\* macro is printed, nothing is raised and the text comes back as it was,
\* every `#ifdef REMOVED` block still in it.
C5_RemovedBlockKept ==
    (pc = "apply_fixes" /\ replacements = <<RuleRemoved>>) =>
        /\ modified = source
        /\ printed = <<Diagnostic("REMOVED")>>
        /\ raised = None

\* C5 witness: apply_fixes ran with the removal-only rule on the scenario's
\* source and returned it unchanged
C5_Witness ==
    /\ pc = "apply_fixes"
    /\ replacements = <<RuleRemoved>>
    /\ source = ScenarioB
    /\ modified = ScenarioB

C27_DiagnosticOnlyWhenMacroOccurs ==
    pc = "apply_fixes" =>
        \A k \in DOMAIN printed : \A r \in DOMAIN replacements :
            printed[k] = Diagnostic(replacements[r].old) =>
                \E j \in DOMAIN source : source[j] = replacements[r].old

----------------------------------------------------------------------------
(* Specification SpecMacro: apply_fixes with the rule of a macro that is    *)
(* renamed and always defined, applied to every text of at most             *)
(* MaxMacroLines lines drawn from the conditional directives on the macro,  *)
(* #else, #endif, two lines of code and a line that names the macro, with   *)
(* or without the include of the rule's header in front.                    *)

IfdefM == <<"#ifdef", SP, "OLDMACRO">>
IfndefM == <<"#ifndef", SP, "OLDMACRO">>
UseMacro == <<"return", SP, "OLDMACRO", ";">>

MacroLineKinds ==
    {IfdefM, IfndefM, ElseLine, EndifLine, CodeLine, BarLine, UseMacro}

InitMacro ==
    /\ pc = "start"
    /\ \E n \in 0..MaxMacroLines : \E lines \in [1..n -> MacroLineKinds] :
       \E front \in {<<>>, <<IncludeQuoted(RuleMacro.headers[1])>>} :
           source = FileOf(front \o lines)
    /\ replacements = <<RuleMacro>>
    /\ modified = source
    /\ raised = None
    /\ printed = <<>>
    /\ macro_blocks = <<>>
    /\ lines_to_remove = {}
    /\ again = None
    /\ NoRest
    /\ NoWorkflow

SpecMacro == InitMacro /\ [][CallApplyFixes]_vars

ScenarioA == FileOf(<<IfdefM, CodeLine, ElseLine, BarLine, EndifLine>>)

IfNew == <<"#if", SP, "NEWFLAG">>
IfNotNew == <<"#if", SP, "!", "NEWFLAG">>

\* what the rule makes of one line
Rewritten(line) ==
    IF line = IfdefM THEN IfNew
    ELSE IF line = IfndefM THEN IfNotNew
    ELSE IF line = UseMacro THEN <<"return", SP, "NEWFLAG", ";">>
    ELSE line

RewrittenLines(L) == [k \in DOMAIN L |-> Rewritten(L[k])]

\* the macro is named in L and the rule's header is not included
HeaderMissing(L) ==
    /\ \E k \in DOMAIN L : L[k] \in {IfdefM, IfndefM, UseMacro}
    /\ \A k \in DOMAIN L : L[k] # IncludeQuoted(RuleMacro.headers[1])

\* C12 (as stated): the directives on the macro become `#if NEWFLAG` and
\* `#if !NEWFLAG`, no line is added or removed, every other line is
\* unchanged, and scenario A becomes the five lines `#if NEWFLAG`, foo,
\* #else, bar, #endif.
C12_OnlyDirectivesRewritten ==
    (pc = "apply_fixes" /\ replacements = <<RuleMacro>>) =>
        LET L == splitlines(source)
        IN  /\ raised = None
            /\ \A k \in DOMAIN L : L[k] # UseMacro
                   => modified = FileOf(RewrittenLines(L))

\* C12 (amended): every line of the source is returned in place, a
\* directive on the macro as `#if NEWFLAG` or `#if !NEWFLAG`, a line that
\* names the macro with the new name, any other line as it was; when the
\* macro is named and the rule's header is not included, one include line
\* of that header comes in front and the text returned has no final
\* newline, and otherwise no line is added.
C12_DirectivesRewrittenHeaderAdded ==
    (pc = "apply_fixes" /\ replacements = <<RuleMacro>>) =>
        LET L == splitlines(source)
        IN  /\ raised = None
            /\ printed = <<>>
            /\ modified =
                   IF HeaderMissing(L)
                   THEN join(<<IncludeQuoted(RuleMacro.headers[1])>>
                             \o RewrittenLines(L))
                   ELSE FileOf(RewrittenLines(L))

\* C12 witness: scenario A was rewritten and got the include in front
C12_Witness ==
    /\ pc = "apply_fixes"
    /\ replacements = <<RuleMacro>>
    /\ source = ScenarioA
    /\ splitlines(modified) =
           <<IncludeQuoted(RuleMacro.headers[1]),
             IfNew, CodeLine, ElseLine, BarLine, EndifLine>>

\* C12 witness of the other case: an #ifndef block behind the include of
\* the header, rewritten with no line added
C12_WitnessIncluded ==
    /\ pc = "apply_fixes"
    /\ source = FileOf(<<IncludeQuoted(RuleMacro.headers[1]),
                         IfndefM, CodeLine, EndifLine>>)
    /\ modified = FileOf(<<IncludeQuoted(RuleMacro.headers[1]),
                           IfNotNew, CodeLine, EndifLine>>)

----------------------------------------------------------------------------
(* bout_v6_coordinates_upgrader.py: the operations on Python lists *)

\* del lst[i]: a negative index counts from the end
DelItem(lst, i) ==
    LET at == IF i < 0 THEN i + Len(lst) ELSE i
    IN  IF at < 0 \/ at >= Len(lst) THEN Raise("IndexError")
        ELSE Return(SubSeq(lst, 1, at) \o SubSeq(lst, at + 2, Len(lst)))

\* lst.insert(i, x): the index is clipped to the list
InsertItem(lst, i, x) ==
    LET at == IF i < 0 THEN (IF i + Len(lst) < 0 THEN 0 ELSE i + Len(lst))
              ELSE IF i > Len(lst) THEN Len(lst) ELSE i
    IN  Insert(lst, at, x)

\* lst.index(x), for an x that is in lst
IndexOf(lst, x) == (CHOOSE i \in DOMAIN lst :
                       lst[i] = x /\ \A j \in 1..(i - 1) : lst[j] # x) - 1

Min(S) == CHOOSE m \in S : \A n \in S : m <= n

----------------------------------------------------------------------------
(* use_metric_accessors *)

ContravariantComponents == <<"g11", "g22", "g33", "g12", "g13", "g23">>
CovariantComponents == <<"g_11", "g_22", "g_33", "g_12", "g_13", "g_23">>

\* g_?\d\d, as far as the components of the two tensors go
MetricComponents ==
    {ContravariantComponents[k] : k \in DOMAIN ContravariantComponents}
    \cup {CovariantComponents[k] : k \in DOMAIN CovariantComponents}

\* the index of the last ";" of the line, 0 when it has none
LastSemicolon(line) ==
    IF \E k \in DOMAIN line : line[k] = ";"
    THEN CHOOSE k \in DOMAIN line :
             line[k] = ";" /\ \A j \in (k + 1)..Len(line) : line[j] # ";"
    ELSE 0

\* (g_?)(\d\d)\s?\=\s?(.+)(?=;) from token k of the line: 0, or the index
\* of the first token of group 4, which ends before the last ";"
SettingValueAt(line, k) ==
    LET eq == IF k + 1 <= Len(line) /\ line[k + 1] = SP THEN k + 2 ELSE k + 1
        semi == LastSemicolon(line)
        val == IF eq + 1 <= Len(line) /\ line[eq + 1] = SP /\ eq + 2 < semi
               THEN eq + 2 ELSE eq + 1
    IN  IF /\ k <= Len(line)
           /\ line[k] \in MetricComponents
           /\ eq <= Len(line)
           /\ line[eq] = "="
           /\ val < semi
        THEN val ELSE 0

\* the tokens where a word starts in the line
WordStarts(line) ==
    {i \in DOMAIN line :
        WordFirst(line[i]) /\ (i = 1 \/ ~WordLast(line[i - 1]))}

\* SETTING_METRIC_COMPONENT_REGEX.search(line): None, or the groups of the
\* match as [receiver, key, value]; the first alternative of group 1
\* starts at the first word of the line and runs to the last `->` that
\* the rest of the pattern can follow, the second is a lone dot
SettingMatch(line) ==
    LET arrows == {k \in DOMAIN line :
                      /\ line[k] = "->"
                      /\ SettingValueAt(line, k + 1) # 0
                      /\ \E i \in WordStarts(line) : i < k}
        dots == {k \in DOMAIN line :
                    line[k] = "." /\ SettingValueAt(line, k + 1) # 0}
        group(first, k) ==
            Some([receiver |-> SubSeq(line, first, k),
                  key |-> line[k + 1],
                  value |-> SubSeq(line, SettingValueAt(line, k + 1),
                                   LastSemicolon(line) - 1)])
    IN  IF arrows # {}
        THEN group(Min(WordStarts(line)), Max(arrows))
        ELSE IF dots # {} THEN group(Min(dots), Min(dots))
        ELSE None

\* GETTING_METRIC_COMPONENT_REGEX.sub(r"\g<component>", value): `c->g11`
\* and `.g11` become `g11`
RECURSIVE GettingSubFrom(_, _)
GettingSubFrom(value, i) ==
    IF i > Len(value) THEN <<>>
    ELSE IF /\ i + 2 <= Len(value)
            /\ WordFirst(value[i]) /\ WordLast(value[i])
            /\ value[i + 1] = "->"
            /\ value[i + 2] \in MetricComponents
    THEN <<value[i + 2]>> \o GettingSubFrom(value, i + 3)
    ELSE IF /\ i + 1 <= Len(value)
            /\ value[i] = "."
            /\ value[i + 1] \in MetricComponents
    THEN <<value[i + 1]>> \o GettingSubFrom(value, i + 2)
    ELSE <<value[i]>> \o GettingSubFrom(value, i + 1)

\* findall on the text: the matches of its lines, in order
RECURSIVE FindAll(_, _)
FindAll(text_lines, i) ==
    IF i > Len(text_lines) THEN <<>>
    ELSE SettingMatch(text_lines[i]) \o FindAll(text_lines, i + 1)

\* the keys of the dict metric_components, in the order of their first
\* insertion
RECURSIVE Keys(_, _, _)
Keys(matches, i, acc) ==
    IF i > Len(matches) THEN acc
    ELSE IF \E k \in DOMAIN acc : acc[k] = matches[i].key
    THEN Keys(matches, i + 1, acc)
    ELSE Keys(matches, i + 1, Append(acc, matches[i].key))

\* metric_components[key]: the value of the last match on the key
ValueOf(matches, key) ==
    matches[Max({i \in DOMAIN matches : matches[i].key = key})].value

\* indices_of_matching_lines: for each line the pattern is found in, the
\* index of the first line equal to it
RECURSIVE IndicesOfMatchingLines(_, _)
IndicesOfMatchingLines(text_lines, i) ==
    IF i > Len(text_lines) THEN <<>>
    ELSE IF SettingMatch(text_lines[i]) # None
    THEN <<IndexOf(text_lines, text_lines[i])>>
         \o IndicesOfMatchingLines(text_lines, i + 1)
    ELSE IndicesOfMatchingLines(text_lines, i + 1)

\* the loop that deletes the matching lines
RECURSIVE DeleteMatching(_, _, _)
DeleteMatching(lst, to_remove, lines_removed_count) ==
    IF lines_removed_count >= Len(to_remove) THEN Return(lst)
    ELSE LET del == DelItem(lst, to_remove[lines_removed_count + 1]
                                 - lines_removed_count)
         IN  IF Raises(del) THEN del
             ELSE DeleteMatching(del.value, to_remove,
                                 lines_removed_count + 1)

LocalVariableLine(key, new_value) ==
    <<"    ", "const", SP, "auto", SP, key, SP, "=", SP>> \o new_value
    \o <<";">>

\* the loop over the reversed items that inserts the local variables:
\* st = [lines, newline_inserted]
RECURSIVE InsertLocals(_, _, _, _, _)
InsertLocals(st, matches, keys, i, at) ==
    IF i < 1 THEN st.lines
    ELSE LET key == keys[i]
             new_value == GettingSubFrom(ValueOf(matches, key), 1)
             blank == key \notin {CovariantComponents[k] :
                                     k \in DOMAIN CovariantComponents}
                      /\ ~st.newline_inserted
             spaced == IF blank THEN InsertItem(st.lines, at, <<>>)
                       ELSE st.lines
         IN  InsertLocals(
                 [lines |-> InsertItem(spaced, at,
                                       LocalVariableLine(key, new_value)),
                  newline_inserted |-> st.newline_inserted \/ blank],
                 matches, keys, i - 1, at)

\* the names separated by ", "
RECURSIVE CommaSeparated(_)
CommaSeparated(names) ==
    IF Len(names) <= 1 THEN names
    ELSE <<names[1], ",", SP>> \o CommaSeparated(Tail(names))

MetricTensorArguments ==
    <<"(", "ContravariantMetricTensor", "(">>
    \o CommaSeparated(ContravariantComponents)
    \o <<")", ",", NL>> \o [k \in 1..27 |-> SP]
    \o <<"CovariantMetricTensor", "(">>
    \o CommaSeparated(CovariantComponents)
    \o <<")", ")", ";">>

NewMetricTensorSetter(coordinates_name_and_arrow) ==
    <<"    ">> \o coordinates_name_and_arrow \o <<"setMetricTensor">>
    \o MetricTensorArguments

\* the value returned is the list of lines
use_metric_accessors(original_string) ==
    LET text_lines == splitlines(original_string)
        line_matches == FindAll(text_lines, 1)
        keys == Keys(line_matches, 1, <<>>)
        to_remove == IndicesOfMatchingLines(text_lines, 1)
        removed == DeleteMatching(text_lines, to_remove, 0)
    IN  IF Len(line_matches) = 0 THEN Return(text_lines)
        ELSE IF Raises(removed) THEN removed
        ELSE LET with_locals ==
                     InsertLocals([lines |-> removed.value,
                                   newline_inserted |-> FALSE],
                                  line_matches, keys, Len(keys), to_remove[1])
                 with_blank ==
                     InsertItem(with_locals, to_remove[1] + Len(keys) + 1, <<>>)
                 with_setter ==
                     InsertItem(with_blank, to_remove[1] + Len(keys) + 2,
                                NewMetricTensorSetter(line_matches[1].receiver))
             IN  DelItem(with_setter, to_remove[Len(to_remove)] + 3)

----------------------------------------------------------------------------
(* remove_geometry_calls *)

\* GEOMETRY_METHOD_CALL_REGEX.search(line)
GeometryMatch(line) ==
    \E k \in 1..(Len(line) - 2) :
        line[k] = "geometry" /\ line[k + 1] = "(" /\ line[k + 2] = ")"

RECURSIVE IndicesOfGeometryLines(_, _)
IndicesOfGeometryLines(text_lines, i) ==
    IF i > Len(text_lines) THEN <<>>
    ELSE IF GeometryMatch(text_lines[i])
    THEN <<IndexOf(text_lines, text_lines[i])>>
         \o IndicesOfGeometryLines(text_lines, i + 1)
    ELSE IndicesOfGeometryLines(text_lines, i + 1)

\* lst[i]: a negative index counts from the end
GetItem(lst, i) ==
    LET at == IF i < 0 THEN i + Len(lst) ELSE i
    IN  IF at < 0 \/ at >= Len(lst) THEN Raise("IndexError")
        ELSE Return(lst[at + 1])

\* line.strip() == ""
IsBlank(line) == \A k \in DOMAIN line : line[k] \in Whitespace \cup {"    "}

\* the body of the loop of remove_geometry_calls for one index
RemoveGeometryLine(lst, line_index) ==
    LET above == GetItem(lst, line_index - 1)
        below == GetItem(lst, line_index + 1)
    IN  IF Raises(above) THEN above
        ELSE IF ~IsBlank(above.value) THEN DelItem(lst, line_index)
        ELSE IF Raises(below) THEN below
        ELSE IF ~IsBlank(below.value) THEN DelItem(lst, line_index)
        ELSE DelItem(DelItem(lst, line_index + 1).value, line_index)

RECURSIVE RemoveGeometryFrom(_, _, _)
RemoveGeometryFrom(lst, to_remove, i) ==
    IF i > Len(to_remove) THEN Return(lst)
    ELSE LET removed == RemoveGeometryLine(lst, to_remove[i])
         IN  IF Raises(removed) THEN removed
             ELSE RemoveGeometryFrom(removed.value, to_remove, i + 1)

remove_geometry_calls(lst) ==
    RemoveGeometryFrom(lst, IndicesOfGeometryLines(lst, 1), 1)

----------------------------------------------------------------------------
(* replace_one_line_cases *)

\* s.split("\n"), from token i
RECURSIVE SplitKeeping(_, _)
SplitKeeping(s, i) ==
    LET newlines == {k \in i..Len(s) : s[k] = NL}
    IN  IF newlines = {} THEN <<SubSeq(s, i, Len(s))>>
        ELSE <<SubSeq(s, i, Min(newlines) - 1)>>
             \o SplitKeeping(s, Min(newlines) + 1)

\* metric_component, mesh_spacing and the six single names, in the order
\* replace_one_line_cases takes them
MeshSpacings == {"dx", "dy", "dz"}
AccessorVars ==
    <<MetricComponents, MeshSpacings, {"Bxy"}, {"J"}, {"IntShiftTorsion"},
      {"G1"}, {"G2"}, {"G3"}>>

\* variable_name[0].upper() + variable_name[1:]
Capitalised(variable_name) ==
    CASE variable_name = "dx" -> "Dx"
      [] variable_name = "dy" -> "Dy"
      [] variable_name = "dz" -> "Dz"
      [] variable_name = "g11" -> "G11"
      [] variable_name = "g22" -> "G22"
      [] variable_name = "g33" -> "G33"
      [] variable_name = "g12" -> "G12"
      [] variable_name = "g13" -> "G13"
      [] variable_name = "g23" -> "G23"
      [] variable_name = "g_11" -> "G_11"
      [] variable_name = "g_22" -> "G_22"
      [] variable_name = "g_33" -> "G_33"
      [] variable_name = "g_12" -> "G_12"
      [] variable_name = "g_13" -> "G_13"
      [] variable_name = "g_23" -> "G_23"
      [] OTHER -> variable_name

\* \b between token i - 1 and token i of the line
BoundaryAt(line, i) ==
    (i > 1 /\ WordLast(line[i - 1])) # (i <= Len(line) /\ WordFirst(line[i]))

\* ({var})\s?{op}\s?(.+)(?=;) from token k of the line, op being `=` or
\* `/=`: 0, or the index of the first token of the value, which ends
\* before the last ";" of the line
EqualsSomethingAt(var, op, line, k) ==
    LET eq == IF k + 1 <= Len(line) /\ line[k + 1] = SP THEN k + 2 ELSE k + 1
        last == eq + Len(op) - 1
        semi == LastSemicolon(line)
        val == IF last + 1 <= Len(line) /\ line[last + 1] = SP
                  /\ last + 2 < semi
               THEN last + 2 ELSE last + 1
    IN  IF /\ k <= Len(line)
           /\ line[k] \in var
           /\ last <= Len(line)
           /\ SubSeq(line, eq, last) = op
           /\ val < semi
        THEN val ELSE 0

\* ({var})(?!\()(?!\s?=) at token k of the line
BareReadAt(var, line, k) ==
    /\ k <= Len(line)
    /\ line[k] \in var
    /\ ~(k + 1 <= Len(line) /\ line[k + 1] \in {"(", "="})
    /\ ~(k + 2 <= Len(line) /\ line[k + 1] = SP /\ line[k + 2] = "=")

\* what follows ({arrow_or_dot}) in the three patterns of
\* assignment_regex_pairs
PairTailAt(kind, var, line, k) ==
    CASE kind = "assignment" -> EqualsSomethingAt(var, <<"=">>, line, k) # 0
      [] kind = "division" -> EqualsSomethingAt(var, <<"/", "=">>, line, k) # 0
      [] kind = "read" -> BareReadAt(var, line, k)

\* the match of a pattern of assignment_regex_pairs that starts at token i
\* of the line: 0, or the index of the `->` or `.` that ends group 1; the
\* first alternative runs from a word boundary to the last `->` the rest
\* of the pattern can follow, the second is a lone dot
PairMatchAt(kind, var, line, i) ==
    LET arrows == IF BoundaryAt(line, i)
                  THEN {k \in (i + 1)..Len(line) :
                           line[k] = "->" /\ PairTailAt(kind, var, line, k + 1)}
                  ELSE {}
    IN  IF arrows # {} THEN Max(arrows)
        ELSE IF line[i] = "." /\ PairTailAt(kind, var, line, i + 1) THEN i
        ELSE 0

\* replacement_for_assignment
replacement_for_assignment(coord_and_arrow_or_dot, variable_name, value) ==
    coord_and_arrow_or_dot \o <<"set", Capitalised(variable_name), "(">>
    \o value \o <<")">>

\* replacement_for_division_assignment
replacement_for_division_assignment(coord_and_arrow_or_dot, variable_name, value) ==
    LET denominator ==
            IF value[1] = "(" /\ value[Len(value)] = ")" THEN value
            ELSE <<"(">> \o value \o <<")">>
    IN  coord_and_arrow_or_dot \o <<"set", Capitalised(variable_name), "(">>
        \o coord_and_arrow_or_dot \o <<variable_name, SP, "/", SP>>
        \o denominator \o <<")">>

\* the replacement of the match that starts at token i and whose group 1
\* ends at token k, and the index of the first token after the match
PairReplacement(kind, var, line, i, k) ==
    LET group1 == SubSeq(line, i, k)
        semi == LastSemicolon(line)
        op == IF kind = "division" THEN <<"/", "=">> ELSE <<"=">>
        value == SubSeq(line, EqualsSomethingAt(var, op, line, k + 1), semi - 1)
    IN  CASE kind = "assignment" ->
                 [text |-> replacement_for_assignment(group1, line[k + 1], value),
                  next |-> semi]
          [] kind = "division" ->
                 [text |-> replacement_for_division_assignment(
                               group1, line[k + 1], value),
                  next |-> semi]
          [] kind = "read" ->
                 [text |-> group1 \o <<line[k + 1], "(", ")">>,
                  next |-> k + 2]

\* compiled_pattern.sub(replacement, line), from token i: the tokens up
\* to the leftmost match are kept, the match is replaced, and the scan
\* goes on after it
RECURSIVE PairSubFrom(_, _, _, _)
PairSubFrom(kind, var, line, i) ==
    LET starts == {j \in i..Len(line) : PairMatchAt(kind, var, line, j) # 0}
    IN  IF starts = {} THEN SubSeq(line, i, Len(line))
        ELSE LET j == Min(starts)
                 r == PairReplacement(kind, var, line, j,
                                      PairMatchAt(kind, var, line, j))
             IN  SubSeq(line, i, j - 1) \o r.text
                 \o PairSubFrom(kind, var, line, r.next)

\* compiled_pattern.search(line)
PairSearch(kind, var, line) ==
    \E i \in DOMAIN line : PairMatchAt(kind, var, line, i) # 0

\* mesh(\-\>|\.)get\((\w+)(\-\>|\.)(\w+)\(?\)?, (\"\w+\")\) at token i of
\* the line: 0, or the index of the closing parenthesis
MeshGetAt(line, i) ==
    LET open == IF i + 7 <= Len(line) /\ line[i + 7] = "(" THEN i + 8 ELSE i + 7
        close == IF open <= Len(line) /\ line[open] = ")" THEN open + 1 ELSE open
        word(k) == WordFirst(line[k]) /\ WordLast(line[k])
    IN  IF /\ close + 5 <= Len(line)
           /\ line[i] = "mesh"
           /\ line[i + 1] \in {"->", "."}
           /\ line[i + 2] = "get"
           /\ line[i + 3] = "("
           /\ word(i + 4)
           /\ line[i + 5] \in {"->", "."}
           /\ word(i + 6)
           /\ SubSeq(line, close, close + 2) = <<",", SP, QUOTE>>
           /\ word(close + 3)
           /\ SubSeq(line, close + 4, close + 5) = <<QUOTE, ")">>
        THEN close + 5 ELSE 0

\* replacement_for_assignment_with_mesh_get
replacement_for_assignment_with_mesh_get(arrow_or_dot, coords, variable_name, new_value) ==
    <<coords, arrow_or_dot, "set", Capitalised(variable_name), "(",
      "mesh", "->", "get", "(">> \o new_value \o <<")", ")">>

RECURSIVE MeshGetSubFrom(_, _)
MeshGetSubFrom(line, i) ==
    LET starts == {j \in i..Len(line) : MeshGetAt(line, j) # 0}
    IN  IF starts = {} THEN SubSeq(line, i, Len(line))
        ELSE LET j == Min(starts)
                 end == MeshGetAt(line, j)
             IN  SubSeq(line, i, j - 1)
                 \o replacement_for_assignment_with_mesh_get(
                        line[j + 1], line[j + 4], line[j + 6],
                        SubSeq(line, end - 3, end - 1))
                 \o MeshGetSubFrom(line, end + 1)

\* the patterns of replace_one_line_cases, in order
Patterns ==
    [n \in 1..(3 * Len(AccessorVars)) |->
        [kind |-> <<"assignment", "division", "read">>[((n - 1) % 3) + 1],
         var |-> AccessorVars[((n - 1) \div 3) + 1]]]
    \o <<[kind |-> "mesh_get", var |-> {}]>>

PatternSearch(pattern, line) ==
    IF pattern.kind = "mesh_get"
    THEN \E i \in DOMAIN line : MeshGetAt(line, i) # 0
    ELSE PairSearch(pattern.kind, pattern.var, line)

PatternSub(pattern, line) ==
    IF pattern.kind = "mesh_get" THEN MeshGetSubFrom(line, 1)
    ELSE PairSubFrom(pattern.kind, pattern.var, line, 1)

MAX_OCCURRENCES == 12

\* compiled_pattern.sub(replacement, modified), line by line
RECURSIVE SubEachLine(_, _, _)
SubEachLine(pattern, text_lines, n) ==
    IF n > Len(text_lines) THEN <<>>
    ELSE <<PatternSub(pattern, text_lines[n])>>
         \o SubEachLine(pattern, text_lines, n + 1)

\* while compiled_pattern.search(modified) and count < MAX_OCCURRENCES
RECURSIVE SubWhileFound(_, _, _)
SubWhileFound(pattern, text_lines, count) ==
    IF /\ count < MAX_OCCURRENCES
       /\ \E n \in DOMAIN text_lines : PatternSearch(pattern, text_lines[n])
    THEN LET modified_lines == SubEachLine(pattern, text_lines, 1)
         IN  SubWhileFound(pattern, modified_lines, count + 1)
    ELSE text_lines

\* for pattern, replacement in patterns_with_replacements, from pattern
\* n: a pattern that is not found leaves the text as it is, so the loop
\* goes on from the first pattern that is found
RECURSIVE EachPatternFrom(_, _)
EachPatternFrom(text_lines, n) ==
    LET found == {m \in n..Len(Patterns) :
                     \E k \in DOMAIN text_lines :
                         PatternSearch(Patterns[m], text_lines[k])}
    IN  IF found = {} THEN text_lines
        ELSE LET modified_lines ==
                     SubWhileFound(Patterns[Min(found)], text_lines, 0)
             IN  EachPatternFrom(modified_lines, Min(found) + 1)

\* no pattern matches across a newline, so the text is taken line by line
replace_one_line_cases(modified_text) ==
    join(EachPatternFrom(SplitKeeping(modified_text, 1), 1))

\* modify
modify(original_string) ==
    LET using_new_metric_accessor_methods ==
            use_metric_accessors(original_string)
    IN  IF Raises(using_new_metric_accessor_methods)
        THEN using_new_metric_accessor_methods
        ELSE LET without_geometry_calls ==
                     remove_geometry_calls(
                         using_new_metric_accessor_methods.value)
             IN  IF Raises(without_geometry_calls) THEN without_geometry_calls
                 ELSE Return(replace_one_line_cases(
                          join(Append(without_geometry_calls.value, <<>>))))

----------------------------------------------------------------------------
(* The script bout-v5-macro-upgrader.py: its fixes, its patch and its       *)
(* prompt                                                                   *)

\* the script's function takes one header and works like the module's
script_fix_include_version_header(old, header, src) ==
    LET included == HeaderIncluded(src, header)
    IN  IF included THEN src
        ELSE IF ~MacroFound(old, src) THEN src
        ELSE LET source_lines == splitlines(src)
                 includes == Includes(source_lines)
                 last_include == IF includes # {} THEN Max(includes) + 1 ELSE 0
             IN  join(Insert(source_lines, last_include, IncludeLine(header)))

\* re.sub(r'([^"])\b{}\b([^"])', ...): next to the \b a character that is
\* not a quote is no word character either, "_" included
script_fix_replacement(old, new, src) == ReplaceFrom(old, new, src, 1)

ScriptApplyReplacement(replacement, text) ==
    LET included == script_fix_include_version_header(
                        replacement.old, replacement.header, text)
        resolved == script_fix_ifdefs(replacement.old, included).value
    IN  script_fix_replacement(replacement.old, replacement.new, resolved)

RECURSIVE ScriptApplyFrom(_, _, _)
ScriptApplyFrom(rules, i, text) ==
    IF i > Len(rules) THEN text
    ELSE ScriptApplyFrom(rules, i + 1, ScriptApplyReplacement(rules[i], text))

script_apply_fixes(rules, src) == ScriptApplyFrom(rules, 1, src)

\* the length of the common prefix of the line lists a and b
RECURSIVE CommonPrefix(_, _, _)
CommonPrefix(a, b, n) ==
    IF n < Len(a) /\ n < Len(b) /\ a[n + 1] = b[n + 1]
    THEN CommonPrefix(a, b, n + 1) ELSE n

\* the lines of a hunk, each behind its sign
RECURSIVE Signed(_, _)
Signed(sign, lines) ==
    IF lines = <<>> THEN <<>>
    ELSE <<sign>> \o lines[1] \o <<NL>> \o Signed(sign, Tail(lines))

\* create_patch: the unified diff of the two line lists under the two
\* file-name lines; nothing at all when the line lists are equal
create_patch(filename, original, modified_text) ==
    LET a == splitlines(original)
        b == splitlines(modified_text)
        n == CommonPrefix(a, b, 0)
    IN  IF a = b THEN <<>>
        ELSE <<"--- ", filename, NL, "+++ ", filename, NL>>
             \o Signed("-", SubSeq(a, n + 1, Len(a)))
             \o Signed("+", SubSeq(b, n + 1, Len(b)))

\* str.lower() on the characters a reply is made of
Lower(reply) ==
    [k \in DOMAIN reply |->
        IF reply[k] = "Y" THEN "y" ELSE IF reply[k] = "N" THEN "n" ELSE reply[k]]

\* str.strip()
RECURSIVE LStrip(_)
LStrip(reply) ==
    IF reply # <<>> /\ reply[1] \in Whitespace THEN LStrip(Tail(reply)) ELSE reply

RECURSIVE RStrip(_)
RStrip(reply) ==
    IF reply # <<>> /\ reply[Len(reply)] \in Whitespace
    THEN RStrip(SubSeq(reply, 1, Len(reply) - 1)) ELSE reply

Strip(reply) == RStrip(LStrip(reply))

\* yes_or_no taking the empty reply for a yes
YesOrNoTurnDefaultYes(input) ==
    LET reply == Strip(Lower(input))
    IN  IF reply = <<>> THEN Some(TRUE)
        ELSE IF reply[1] = "n" THEN Some(FALSE)
        ELSE IF reply[1] = "y" THEN Some(TRUE)
        ELSE None

\* one turn of the loop of yes_or_no: <<FALSE>>, <<TRUE>>, or None when it
\* asks again
YesOrNoTurn(input) ==
    LET reply == Strip(Lower(input))
    IN  IF reply = <<>> \/ reply[1] = "n" THEN Some(FALSE)
        ELSE IF reply[1] = "y" THEN Some(TRUE)
        ELSE None

Question(filename) == <<"Make changes to ", filename, "?", " [y/N] ">>

----------------------------------------------------------------------------
(* Specification SpecPatch: the main loop of the script, for every          *)
(* combination of its options, on at most MaxFiles files, each readable or  *)
(* not, writable or not, holding a line of code or a line that names the    *)
(* macro, with every reply the prompt can get.                              *)

AllFiles == <<"a.cxx", "b.cxx", "c.cxx", "d.cxx">>

ScriptReplacements ==
    <<[old |-> Old, new |-> New, header |-> "bout/version.hxx"]>>

FileContents == {FileOf(<<CodeLine>>), FileOf(<<UseOld>>)}

\* what input() can return
Replies == {<<>>, <<"N", "o">>, <<" ", "Y">>, <<"m">>}

InitPatch ==
    /\ pc = "main"
    /\ \E n \in 1..MaxFiles :
           /\ n <= Len(AllFiles)
           /\ args \in [files : {SubSeq(AllFiles, 1, n)}, force : BOOLEAN,
                         quiet : BOOLEAN, patch_only : BOOLEAN]
           /\ disk \in [{AllFiles[k] : k \in 1..n} ->
                            [contents : FileContents, readable : BOOLEAN,
                             writable : BOOLEAN]]
           /\ replied = [f \in {AllFiles[k] : k \in 1..n} |-> <<>>]
    /\ filenumber = 0
    /\ patch = <<>>
    /\ written = {}
    /\ decided = <<>>
    /\ source = <<>>
    /\ replacements = ScriptReplacements
    /\ modified = <<>>
    /\ raised = None
    /\ printed = <<>>
    /\ macro_blocks = <<>>
    /\ lines_to_remove = {}
    /\ again = None
    /\ NoRest

filename == args.files[filenumber]

\* `continue`, or the end of the loop body
NextFile == pc' = "for" /\ filenumber' = filenumber + 1

Decide(f, p) ==
    [g \in DOMAIN decided \cup {f} |-> IF g = f THEN p ELSE decided[g]]

\* lines 183-184
ParseArgs ==
    /\ pc = "main"
    /\ IF args.force /\ args.patch_only
       THEN pc' = "exit" /\ raised' = Some("ValueError")
                        /\ UNCHANGED filenumber
       ELSE pc' = "for" /\ filenumber' = 1 /\ UNCHANGED raised
    /\ UNCHANGED <<source, replacements, modified, printed, macro_blocks,
                   lines_to_remove, again>>
    /\ UNCHANGED <<args, disk, patch, replied, written, decided>>
    /\ UNCHANGED restVars

\* lines 186-189: open and read the next file
ReadFile ==
    /\ pc = "for"
    /\ filenumber <= Len(args.files)
    /\ IF disk[filename].readable
       THEN pc' = "apply_fixes" /\ source' = disk[filename].contents
                               /\ UNCHANGED raised
       ELSE pc' = "exit" /\ raised' = Some("OSError") /\ UNCHANGED source
    /\ UNCHANGED <<replacements, modified, printed, macro_blocks,
                   lines_to_remove, again>>
    /\ UNCHANGED workflowVars
    /\ UNCHANGED restVars

\* the loop is over
EndOfFiles ==
    /\ pc = "for"
    /\ filenumber > Len(args.files)
    /\ pc' = "exit"
    /\ UNCHANGED <<source, replacements, modified, raised, printed,
                   macro_blocks, lines_to_remove, again>>
    /\ UNCHANGED workflowVars
    /\ UNCHANGED restVars

\* lines 191-192
MakePatch ==
    /\ pc = "apply_fixes"
    /\ \E m \in {script_apply_fixes(replacements, source)} :
           /\ modified' = m
           /\ patch' = create_patch(filename, source, m)
    /\ pc' = "patch"
    /\ UNCHANGED <<source, replacements, raised, printed, macro_blocks,
                   lines_to_remove, again>>
    /\ UNCHANGED <<args, disk, filenumber, replied, written, decided>>
    /\ UNCHANGED restVars

\* lines 194-196
PatchOnly ==
    /\ pc = "patch"
    /\ args.patch_only
    /\ printed' = Append(printed, patch)
    /\ decided' = Decide(filename, patch)
    /\ NextFile
    /\ UNCHANGED <<source, replacements, modified, raised, macro_blocks,
                   lines_to_remove, again>>
    /\ UNCHANGED <<args, disk, patch, replied, written>>
    /\ UNCHANGED restVars

\* lines 198-201
NoChanges ==
    /\ pc = "patch"
    /\ ~args.patch_only
    /\ patch = <<>>
    /\ printed' = IF args.quiet THEN printed
                  ELSE Append(printed, <<"No changes to make to ", filename>>)
    /\ decided' = Decide(filename, patch)
    /\ NextFile
    /\ UNCHANGED <<source, replacements, modified, raised, macro_blocks,
                   lines_to_remove, again>>
    /\ UNCHANGED <<args, disk, patch, replied, written>>
    /\ UNCHANGED restVars

Banner(f, p) ==
    <<<<"\n******************************************">>,
      <<"Changes to ", f, "\n">>,
      p,
      <<"\n******************************************">>>>

\* ShowPatch printing the patch under --quiet too
ShowPatchIgnoringQuiet ==
    /\ pc = "patch"
    /\ ~args.patch_only
    /\ patch # <<>>
    /\ printed' = printed \o Banner(filename, patch)
    /\ IF args.force
       THEN pc' = "write" /\ decided' = Decide(filename, patch)
       ELSE pc' = "yes_or_no" /\ UNCHANGED decided
    /\ UNCHANGED <<source, replacements, modified, raised, macro_blocks,
                   lines_to_remove, again>>
    /\ UNCHANGED <<args, disk, filenumber, patch, replied, written>>
    /\ UNCHANGED restVars

\* ShowPatch printing nothing when the change is forced
ShowPatchSilentWhenForced ==
    /\ pc = "patch"
    /\ ~args.patch_only
    /\ patch # <<>>
    /\ printed' = IF args.quiet \/ args.force THEN printed
                  ELSE printed \o Banner(filename, patch)
    /\ IF args.force
       THEN pc' = "write" /\ decided' = Decide(filename, patch)
       ELSE pc' = "yes_or_no" /\ UNCHANGED decided
    /\ UNCHANGED <<source, replacements, modified, raised, macro_blocks,
                   lines_to_remove, again>>
    /\ UNCHANGED <<args, disk, filenumber, patch, replied, written>>
    /\ UNCHANGED restVars

\* lines 203-210: show the patch; with --force the change is made
ShowPatch ==
    /\ pc = "patch"
    /\ ~args.patch_only
    /\ patch # <<>>
    /\ printed' = IF args.quiet THEN printed
                  ELSE printed \o Banner(filename, patch)
    /\ IF args.force
       THEN pc' = "write" /\ decided' = Decide(filename, patch)
       ELSE pc' = "yes_or_no" /\ UNCHANGED decided
    /\ UNCHANGED <<source, replacements, modified, raised, macro_blocks,
                   lines_to_remove, again>>
    /\ UNCHANGED <<args, disk, filenumber, patch, replied, written>>
    /\ UNCHANGED restVars

\* lines 212 and 120-129: one turn of the loop of yes_or_no; a reply that
\* is neither yes nor no asks again
YesOrNo ==
    /\ pc = "yes_or_no"
    /\ \E input \in Replies :
           /\ YesOrNoTurn(input) = None => Len(replied[filename]) < MaxAsked
           /\ printed' = Append(printed, Question(filename))
           /\ replied' = [replied EXCEPT ![filename] = Append(@, input)]
           /\ IF YesOrNoTurn(input) = None
              THEN UNCHANGED <<pc, filenumber, decided>>
              ELSE /\ decided' = Decide(filename, patch)
                   /\ IF YesOrNoTurn(input) = Some(TRUE)
                      THEN pc' = "write" /\ UNCHANGED filenumber
                      ELSE NextFile
    /\ UNCHANGED <<source, replacements, modified, raised, macro_blocks,
                   lines_to_remove, again>>
    /\ UNCHANGED <<args, disk, patch, written>>
    /\ UNCHANGED restVars

\* input() meets the end of its stream
EndOfInput ==
    /\ pc = "yes_or_no"
    /\ printed' = Append(printed, Question(filename))
    /\ raised' = Some("EOFError")
    /\ pc' = "exit"
    /\ UNCHANGED <<source, replacements, modified, macro_blocks,
                   lines_to_remove, again>>
    /\ UNCHANGED workflowVars
    /\ UNCHANGED restVars

\* lines 214-216
WriteFile ==
    /\ pc = "write"
    /\ IF disk[filename].writable
       THEN /\ disk' = [disk EXCEPT ![filename].contents = modified]
            /\ written' = written \cup {filename}
            /\ NextFile
            /\ UNCHANGED raised
       ELSE /\ raised' = Some("OSError")
            /\ pc' = "exit"
            /\ UNCHANGED <<disk, written, filenumber>>
    /\ UNCHANGED <<source, replacements, modified, printed, macro_blocks,
                   lines_to_remove, again>>
    /\ UNCHANGED <<args, patch, replied, decided>>
    /\ UNCHANGED restVars

NextPatch ==
    \/ ParseArgs
    \/ ReadFile
    \/ EndOfFiles
    \/ MakePatch
    \/ PatchOnly
    \/ NoChanges
    \/ ShowPatch
    \/ YesOrNo
    \/ EndOfInput
    \/ WriteFile

SpecPatch == InitPatch /\ [][NextPatch]_vars

----------------------------------------------------------------------------
(* Claims on the patch workflow *)

\* print(patch) was called with the diff of file f
PatchPrintedAt(f, k) ==
    /\ Len(printed[k]) >= 2
    /\ printed[k][1] = "--- "
    /\ printed[k][2] = f

PatchPrinted(f) == \E k \in DOMAIN printed : PatchPrintedAt(f, k)

\* the operator was asked about file f
Asked(f) == \E k \in DOMAIN printed : printed[k] = Question(f)

\* the last reply about f was a yes
Affirmative(f) ==
    /\ replied[f] # <<>>
    /\ replied[f][Len(replied[f])] = <<" ", "Y">>

\* f is decided with a diff, outside patch-only mode, and accepted
Accepted(f) ==
    /\ f \in DOMAIN decided
    /\ decided[f] # <<>>
    /\ ~args.patch_only
    /\ (args.force \/ Affirmative(f))

\* f is the file in hand
InHand(f) ==
    /\ filenumber \in DOMAIN args.files
    /\ args.files[filenumber] = f

\* C13: a file is written if and only if its diff is not empty, the mode is
\* not patch-only, and force is set or the last reply is a yes (the write
\* then follows, or fails); a file with an empty diff is not asked about;
\* and no step but that write changes the content of a file.
C13_WrittenIffAccepted ==
    /\ [](\A f \in DOMAIN disk :
            /\ f \in written => Accepted(f)
            /\ Accepted(f) =>
                   \/ f \in written
                   \/ InHand(f) /\ pc = "write"
                   \/ InHand(f) /\ pc = "exit" /\ raised = Some("OSError")
            /\ (f \in DOMAIN decided /\ decided[f] = <<>>) =>
                   (~Asked(f) /\ replied[f] = <<>>))
    /\ [][\A f \in DOMAIN disk :
             disk'[f] # disk[f] => (f \notin written /\ f \in written')]_vars

\* C13 witness: a run without --force that wrote the first file on a yes
\* and left the second, which has a diff too, as it was on a no
C13_Witness ==
    /\ pc = "exit"
    /\ ~args.force
    /\ Len(args.files) = 2
    /\ written = {"a.cxx"}
    /\ Affirmative("a.cxx")
    /\ replied["b.cxx"] = << <<"N", "o">> >>
    /\ decided["b.cxx"] # <<>>
    /\ disk["b.cxx"].contents = FileOf(<<UseOld>>)

\* C13 witness of the empty diff: the file is decided without a prompt
C13_WitnessNoChanges ==
    /\ pc = "exit"
    /\ ~args.patch_only
    /\ "a.cxx" \in DOMAIN decided
    /\ decided["a.cxx"] = <<>>
    /\ printed = << <<"No changes to make to ", "a.cxx">> >>

C14_WitnessQuietWrite ==
    /\ args.quiet
    /\ ~args.patch_only
    /\ "a.cxx" \in written
    /\ printed = <<Question("a.cxx")>>

\* C15 (as stated): without --force, the diff of every file written has
\* been printed.
C15_WrittenAfterDiffShown ==
    ~args.force => \A f \in written : PatchPrinted(f)

\* C15 (amended): without --quiet, --force or not, the diff of a file has
\* been printed when the file is about to be written or is written, and
\* before any question about it; with --quiet a file is written with no
\* diff printed.
C15_WrittenAfterDiffShownUnlessQuiet ==
    \A f \in DOMAIN disk :
        /\ (~args.quiet /\ (f \in written \/ (InHand(f) /\ pc = "write"))) =>
               PatchPrinted(f)
        /\ (~args.quiet /\ Asked(f)) =>
               \E j \in DOMAIN printed :
                   /\ PatchPrintedAt(f, j)
                   /\ \A k \in DOMAIN printed :
                          printed[k] = Question(f) => j < k
        /\ (args.quiet /\ f \in written) => ~PatchPrinted(f)

\* C15 witness: --force without --quiet, the file was written and its diff
\* is the third thing printed
C15_Witness ==
    /\ args.force
    /\ ~args.quiet
    /\ "a.cxx" \in written
    /\ Len(printed) >= 3
    /\ printed[3] = decided["a.cxx"]

\* C15 witness of the other case: --quiet without --force, a yes, and the
\* file written with no diff printed
C15_WitnessQuiet ==
    /\ args.quiet
    /\ ~args.force
    /\ Len(args.files) = 2
    /\ Affirmative("b.cxx")
    /\ "b.cxx" \in written
    /\ ~PatchPrinted("b.cxx")

\* C16 (as stated): when reading or writing a file fails, every other file
\* of the invocation has got its patch decision by the end of the run.
C16_OtherFilesStillProcessed ==
    (pc = "exit" /\ raised = Some("OSError")) =>
        \A f \in DOMAIN disk : InHand(f) \/ f \in DOMAIN decided

----------------------------------------------------------------------------
(* Specification SpecMetric: use_metric_accessors applied to every text of  *)
(* at most MaxMetricLines lines drawn from three assignments to metric      *)
(* components through the receiver `c->`, a blank line and a line of code.  *)

Assignment(key, value) == <<"c", "->", key, SP, "=", SP>> \o value \o <<";">>

MetricAssignments ==
    {Assignment("g11", <<"1">>), Assignment("g22", <<"2">>),
     Assignment("g_11", <<"c", "->", "g11">>)}

MetricLineKinds == MetricAssignments \cup {<<>>, CodeLine}

InitMetric ==
    /\ pc = "start"
    /\ \E n \in 0..MaxMetricLines : \E ls \in [1..n -> MetricLineKinds] :
           source = FileOf(ls)
    /\ replacements = <<>>
    /\ modified = source
    /\ raised = None
    /\ printed = <<>>
    /\ macro_blocks = <<>>
    /\ lines_to_remove = {}
    /\ again = None
    /\ NoWorkflow
    /\ NoRest

CallUseMetricAccessors ==
    /\ pc = "start"
    /\ \E r \in {use_metric_accessors(source)} :
           /\ pc' = "use_metric_accessors"
           /\ raised' = IF Raises(r) THEN Some(r.exc) ELSE None
           /\ returned_lines' = IF Raises(r) THEN <<>> ELSE r.value
    /\ UNCHANGED <<source, replacements, modified, printed, macro_blocks,
                   lines_to_remove, again>>
    /\ UNCHANGED workflowVars
    /\ UNCHANGED <<include, staged, unmoved_headers>>

SpecMetric == InitMetric /\ [][CallUseMetricAccessors]_vars

IsMetricComponent(tok) == tok \in MetricComponents

\* the line is a setMetricTensor call on `c->` that names the twelve
\* components in the fixed order
IsAggregatedSetter(line) ==
    /\ Len(line) > 4
    /\ SubSeq(line, 1, 4) = <<"    ", "c", "->", "setMetricTensor">>
    /\ SelectSeq(line, IsMetricComponent)
           = ContravariantComponents \o CovariantComponents

\* C17 (as stated): for every text that holds assignments to metric
\* components, in whatever arrangement, the lines returned hold exactly
\* one aggregated setMetricTensor call and none of the assignments.
C17_OneAggregatedSetter ==
    (/\ pc = "use_metric_accessors"
     /\ \E k \in DOMAIN splitlines(source) :
            splitlines(source)[k] \in MetricAssignments) =>
        /\ raised = None
        /\ Cardinality({k \in DOMAIN returned_lines :
                           IsAggregatedSetter(returned_lines[k])}) = 1
        /\ \A k \in DOMAIN returned_lines :
               returned_lines[k] \notin MetricAssignments

\* the line declares a local variable: `    const auto <key> = <value>;`
IsDeclaration(line) ==
    /\ Len(line) > 6
    /\ SubSeq(line, 1, 5) = <<"    ", "const", SP, "auto", SP>>

\* the line calls setMetricTensor
IsSetterCall(line) == \E k \in DOMAIN line : line[k] = "setMetricTensor"

\* the keys the declarations of the list declare, in the order of the lines
DeclaredKeys(lst) ==
    LET declarations == SelectSeq(lst, IsDeclaration)
    IN  [k \in DOMAIN declarations |-> declarations[k][6]]

IsAssignmentLine(line) == SettingMatch(line) # None

\* C23 (as stated): when the text assigns metric components, the lines
\* returned hold one declaration per captured field, in the order of first
\* discovery and starting at the position of the first removed assignment,
\* then the single aggregated call, and the components the call names
\* are exactly the declared ones.
C23_CallNamesDeclaredLocals ==
    (/\ pc = "use_metric_accessors"
     /\ FindAll(splitlines(source), 1) # <<>>) =>
        LET L == splitlines(source)
            keys == Keys(FindAll(L, 1), 1, <<>>)
            first == Min({k \in DOMAIN L : IsAssignmentLine(L[k])})
            declarations == {k \in DOMAIN returned_lines :
                                IsDeclaration(returned_lines[k])}
            calls == {k \in DOMAIN returned_lines :
                         IsSetterCall(returned_lines[k])}
        IN  /\ raised = None
            /\ DeclaredKeys(returned_lines) = keys
            /\ Min(declarations) = first
            /\ Cardinality(calls) = 1
            /\ \A k \in calls :
                   /\ k > Max(declarations)
                   /\ {returned_lines[k][j] : j \in DOMAIN returned_lines[k]}
                          \cap MetricComponents
                      = {keys[j] : j \in DOMAIN keys}

IsKeptLine(line) == ~IsAssignmentLine(line) /\ line # <<>>

IsOriginalLine(line) ==
    ~IsDeclaration(line) /\ ~IsSetterCall(line) /\ line # <<>>

IsBlankLine(line) == line = <<>>

\* C30 (as stated): when the text assigns metric components, the lines
\* returned hold, in their order, every line of the text that is not such
\* an assignment (the blank ones included), and every line the function
\* inserts: a declaration per captured field, the blank separator and the
\* aggregated call.
C30_OnlyAssignmentsDeleted ==
    (/\ pc = "use_metric_accessors"
     /\ FindAll(splitlines(source), 1) # <<>>) =>
        LET L == splitlines(source)
            keys == Keys(FindAll(L, 1), 1, <<>>)
        IN  /\ raised = None
            /\ SelectSeq(returned_lines, IsOriginalLine)
                   = SelectSeq(L, IsKeptLine)
            /\ Len(SelectSeq(returned_lines, IsBlankLine))
                   >= Len(SelectSeq(L, IsBlankLine)) + 1
            /\ DeclaredKeys(returned_lines) = keys
            /\ \E k \in DOMAIN returned_lines :
                   IsSetterCall(returned_lines[k])

----------------------------------------------------------------------------
(* modify on texts that set and read the mesh spacings *)

SetDx == <<"coord", "->", "dx", SP, "=", SP, "5", ".", "0", ";">>
ReadDx == <<"y", SP, "=", SP, "coord", "->", "dx", ";">>
ReadTwo ==
    <<"y", SP, "=", SP, "coord", "->", "dx", SP, "+", SP, "coord", "->", "dy",
      ";">>
SetTwo ==
    SetDx \o <<SP, "coord", "->", "dy", SP, "=", SP, "6", ".", "0", ";">>

AccessorLineKinds == {SetDx, ReadDx, ReadTwo, SetTwo, CodeLine, <<>>}

InitAccessors ==
    /\ pc = "start"
    /\ \E n \in 0..MaxAccessorLines : \E ls \in [1..n -> AccessorLineKinds] :
           source = FileOf(ls)
    /\ replacements = <<>>
    /\ modified = source
    /\ raised = None
    /\ printed = <<>>
    /\ macro_blocks = <<>>
    /\ lines_to_remove = {}
    /\ again = None
    /\ NoWorkflow
    /\ NoRest

CallModify ==
    /\ pc = "start"
    /\ \E r \in {modify(source)} :
           /\ pc' = "modify"
           /\ raised' = IF Raises(r) THEN Some(r.exc) ELSE None
           /\ modified' = IF Raises(r) THEN modified ELSE r.value
    /\ UNCHANGED <<source, replacements, printed, macro_blocks,
                   lines_to_remove, again>>
    /\ UNCHANGED workflowVars
    /\ UNCHANGED restVars

SpecAccessors == InitAccessors /\ [][CallModify]_vars

\* the line with every assignment to dx or dy turned into a call of the
\* mutator and every other access into a call of the accessor
WithAccessors(line) ==
    CASE line = SetDx ->
             <<"coord", "->", "set", "Dx", "(", "5", ".", "0", ")", ";">>
      [] line = ReadDx ->
             <<"y", SP, "=", SP, "coord", "->", "dx", "(", ")", ";">>
      [] line = ReadTwo ->
             <<"y", SP, "=", SP, "coord", "->", "dx", "(", ")", SP, "+", SP,
               "coord", "->", "dy", "(", ")", ";">>
      [] line = SetTwo ->
             <<"coord", "->", "set", "Dx", "(", "5", ".", "0", ")", ";", SP,
               "coord", "->", "set", "Dy", "(", "6", ".", "0", ")", ";">>
      [] OTHER -> line

\* C18: modify turns every assignment `recv->f = rhs;` of a tracked field
\* into `recv->setF(rhs);` and every other access `recv->f` into
\* `recv->f()`, however many of them stand on one line
C18_EveryAccessRewritten ==
    pc = "modify" =>
        LET L == splitlines(source)
        IN  /\ raised = None
            /\ modified = FileOf([k \in DOMAIN L |-> WithAccessors(L[k])])

----------------------------------------------------------------------------
(* bout_v5_header_upgrader.py: fix_library_header_locations *)

header_shim_sentinel == "// BOUT++ header shim"

\* header_warning.format(name)
header_warning(name) ==
    <<"#pragma once", NL, header_shim_sentinel, NL,
      "#warning Header has moved", SP, name, NL,
      "#include", SP, QUOTE, "bout/", name, QUOTE, NL>>

\* a header that has not been moved yet
Declarations == <<"class", SP, "Field", ";", NL>>

\* the names of the files include_path.glob("*.hxx") yields, in its order
HeaderNames == <<"a.hxx", "b.hxx", "c.hxx", "d.hxx">>

\* header_shim_sentinel not in f.read()
header_needs_moving(header) ==
    \A k \in DOMAIN header.text : header.text[k] # header_shim_sentinel

InitRelocate ==
    /\ pc = "start"
    /\ \E n \in 0..MaxHeaders : \E moved \in SUBSET (1..n) :
           include = [k \in 1..n |->
                         [name |-> HeaderNames[k],
                          text |-> IF k \in moved
                                   THEN header_warning(HeaderNames[k])
                                   ELSE Declarations]]
    /\ staged \in BOOLEAN
    /\ \E quiet \in BOOLEAN :
           args = [files |-> <<>>, force |-> FALSE, quiet |-> quiet,
                   patch_only |-> FALSE]
    /\ unmoved_headers = <<>>
    /\ returned_lines = <<>>
    /\ source = <<>>
    /\ replacements = <<>>
    /\ modified = <<>>
    /\ raised = None
    /\ printed = <<>>
    /\ macro_blocks = <<>>
    /\ lines_to_remove = {}
    /\ again = None
    /\ disk = <<>>
    /\ filenumber = 0
    /\ patch = <<>>
    /\ replied = <<>>
    /\ written = {}
    /\ decided = <<>>

RelocateUnchanged ==
    UNCHANGED <<source, replacements, modified, macro_blocks, lines_to_remove,
                again, workflowVars, returned_lines, include, staged>>

\* unmoved_headers = list(filter(header_needs_moving, ...))
ListUnmovedHeaders ==
    /\ pc = "start"
    /\ unmoved_headers' = SelectSeq(include, header_needs_moving)
    /\ pc' = "listed"
    /\ UNCHANGED <<raised, printed>>
    /\ RelocateUnchanged

\* if unmoved_headers == []: print and return
NoHeadersToMove ==
    /\ pc = "listed"
    /\ unmoved_headers = <<>>
    /\ printed' = Append(printed, <<"No headers to move!">>)
    /\ pc' = "returned"
    /\ UNCHANGED <<raised, unmoved_headers>>
    /\ RelocateUnchanged

\* out.returncode of `git diff-index --cached HEAD --quiet`, read the
\* wrong way round
ReturncodeInverted == IF staged THEN 0 ELSE 1

\* out.returncode of `git diff-index --cached HEAD --quiet`
Returncode == IF staged THEN 1 ELSE 0

\* the check of the index: an error when it is not clean
CheckIndex ==
    /\ pc = "listed"
    /\ unmoved_headers # <<>>
    /\ IF Returncode # 0
       THEN raised' = Some("RuntimeError") /\ pc' = "raised"
       ELSE raised' = raised /\ pc' = "moving"
    /\ UNCHANGED <<printed, unmoved_headers>>
    /\ RelocateUnchanged

\* the first turn of the loop that moves the headers: the name `run` is
\* the function run(args) of the module, which takes no `shell` argument,
\* so the call raises before git is started
MoveFirstHeader ==
    /\ pc = "moving"
    /\ printed' = IF args.quiet THEN printed
                  ELSE Append(printed, <<"Moving", unmoved_headers[1].name>>)
    /\ raised' = Some("TypeError")
    /\ pc' = "raised"
    /\ UNCHANGED unmoved_headers
    /\ RelocateUnchanged

NextRelocate ==
    \/ ListUnmovedHeaders
    \/ NoHeadersToMove
    \/ CheckIndex
    \/ MoveFirstHeader

SpecRelocate == InitRelocate /\ [][NextRelocate]_vars

\* C19: with headers to move and staged changes in the index,
\* fix_library_header_locations ends in RuntimeError at the check of the
\* index; it never comes to the loop that moves the headers, announces no
\* move, and every header it listed is still in the include directory with
\* its own text
C19_RaisesBeforeMoving ==
    (staged /\ unmoved_headers # <<>> /\ pc # "listed") =>
        /\ pc = "raised"
        /\ raised = Some("RuntimeError")
        /\ printed = <<>>
        /\ unmoved_headers = SelectSeq(include, header_needs_moving)

C19_Witness ==
    /\ pc = "raised"
    /\ staged
    /\ raised = Some("RuntimeError")
    /\ unmoved_headers # <<>>
    /\ Len(unmoved_headers) < Len(include)

\* C25 (as stated): with a clean index and headers to move,
\* fix_library_header_locations does not stop before its end: it returns
\* without an error, and afterwards every header of the include directory
\* holds the sentinel, so that a later invocation finds none to move.
C25_CleanIndexCompletes ==
    (~staged /\ unmoved_headers # <<>> /\ pc \notin {"listed", "moving"}) =>
        /\ pc = "returned"
        /\ raised = None
        /\ SelectSeq(include, header_needs_moving) = <<>>

----------------------------------------------------------------------------
(* apply_fixes, of the module and of the script, on lists of up to two     *)
(* rules and on texts that name the macros of both rules                   *)

\* rules whose always_defined is not set
RuleUnset == [RuleVariable EXCEPT !.always_defined = FALSE]
RuleUnsetMacro == [RuleMacro EXCEPT !.always_defined = FALSE]

OrderRules == {RuleVariable, RuleMacro, RuleUnset, RuleUnsetMacro}

OrderRuleLists ==
    {rl \in UNION {[1..n -> OrderRules] : n \in 0..2} :
        \A a, b \in DOMAIN rl : a # b => rl[a] # rl[b]}

OrderLineKinds == {IfdefT, IfndefT, IfdefM, EndifLine, UseOld, UseMacro}

\* the rules of the script have the keys old, new and header, and stand
\* for macros that are now variables
IsScriptRule(rule) == rule.always_defined /\ ~rule.macro

ScriptRule(rule) ==
    [old |-> rule.old, new |-> rule.new[1], header |-> rule.headers[1]]

InitOrder ==
    /\ pc = "start"
    /\ \E n \in 0..MaxOrderLines : \E ls \in [1..n -> OrderLineKinds] :
           source = FileOf(ls)
    /\ replacements \in OrderRuleLists
    /\ modified = source
    /\ raised = None
    /\ printed = <<>>
    /\ macro_blocks = <<>>
    /\ lines_to_remove = {}
    /\ again = None
    /\ NoRest
    /\ NoWorkflow

CallScriptApplyFixes ==
    /\ pc = "start"
    /\ \A k \in DOMAIN replacements : IsScriptRule(replacements[k])
    /\ pc' = "script_apply_fixes"
    /\ modified' = script_apply_fixes(
                       [k \in DOMAIN replacements |-> ScriptRule(replacements[k])],
                       source)
    /\ UNCHANGED <<source, replacements, raised, printed, macro_blocks,
                   lines_to_remove, again>>
    /\ UNCHANGED workflowVars
    /\ UNCHANGED restVars

NextOrder == CallApplyFixes \/ CallScriptApplyFixes

SpecOrder == InitOrder /\ [][NextOrder]_vars

\* the text a step returned, the text it was given when it raised
TextOf(result, text) == IF Raises(result) THEN text ELSE result.value

\* the three steps of one rule of the module, in the order of the claim
StepsInOrder(rule, text) ==
    LET with_header ==
            TextOf(fix_include_version_header(rule.old, rule.headers, text),
                   text)
        conditionals ==
            IF rule.always_defined /\ rule.macro
            THEN fix_always_defined_macros(rule.old, rule.new[1], with_header)
            ELSE IF rule.always_defined
            THEN TextOf(fix_ifdefs(rule.old, with_header), with_header)
            ELSE with_header
    IN  fix_replacement(rule.old, rule.new[1], conditionals)

RECURSIVE RulesInOrder(_, _, _)
RulesInOrder(rules, i, text) ==
    IF i > Len(rules) THEN text
    ELSE LET next_text == StepsInOrder(rules[i], text)
         IN  RulesInOrder(rules, i + 1, next_text)

\* the three steps of one rule of the script
ScriptStepsInOrder(rule, text) ==
    LET with_header ==
            script_fix_include_version_header(rule.old, rule.headers[1], text)
        conditionals == script_fix_ifdefs(rule.old, with_header).value
    IN  script_fix_replacement(rule.old, rule.new[1], conditionals)

RECURSIVE ScriptRulesInOrder(_, _, _)
ScriptRulesInOrder(rules, i, text) ==
    IF i > Len(rules) THEN text
    ELSE LET next_text == ScriptStepsInOrder(rules[i], text)
         IN  ScriptRulesInOrder(rules, i + 1, next_text)

C22_WitnessUnset ==
    /\ pc = "apply_fixes"
    /\ replacements = <<RuleUnset>>
    /\ \E k \in DOMAIN modified : modified[k] = "#ifdef"
    /\ modified # source

----------------------------------------------------------------------------
(* Specification SpecGeometry: remove_geometry_calls applied to every list  *)
(* of at most MaxGeometryLines lines drawn from two calls of geometry(), a  *)
(* blank line and two lines of code.                                        *)

GeometryCall == <<"    ", "coord", "->", "geometry", "(", ")", ";">>
MeshGeometryCall == <<"    ", "mesh", "->", "geometry", "(", ")", ";">>
OtherLine == <<"bar", ";">>

GeometryLineKinds ==
    {GeometryCall, MeshGeometryCall, <<>>, CodeLine, OtherLine}

InitGeometry ==
    /\ pc = "start"
    /\ \E n \in 0..MaxGeometryLines : \E ls \in [1..n -> GeometryLineKinds] :
           source = FileOf(ls)
    /\ replacements = <<>>
    /\ modified = source
    /\ raised = None
    /\ printed = <<>>
    /\ macro_blocks = <<>>
    /\ lines_to_remove = {}
    /\ again = None
    /\ NoWorkflow
    /\ NoRest

CallRemoveGeometryCalls ==
    /\ pc = "start"
    /\ \E r \in {remove_geometry_calls(splitlines(source))} :
           /\ pc' = "remove_geometry_calls"
           /\ raised' = IF Raises(r) THEN Some(r.exc) ELSE None
           /\ returned_lines' = IF Raises(r) THEN <<>> ELSE r.value
    /\ UNCHANGED <<source, replacements, modified, printed, macro_blocks,
                   lines_to_remove, again>>
    /\ UNCHANGED workflowVars
    /\ UNCHANGED <<include, staged, unmoved_headers>>

SpecGeometry == InitGeometry /\ [][CallRemoveGeometryCalls]_vars

IsCodeLine(line) == ~GeometryMatch(line) /\ ~IsBlank(line)

\* the calls of geometry() that have a blank line above and a blank line
\* below
CallsBetweenBlanks(L) ==
    {k \in DOMAIN L :
        /\ GeometryMatch(L[k])
        /\ k > 1 /\ k < Len(L)
        /\ IsBlank(L[k - 1]) /\ IsBlank(L[k + 1])}

\* C24 (as stated): no error is raised, no line returned calls geometry(),
\* the other non-blank lines are returned in their order, and at most one
\* blank line is dropped per call that stood between two blank lines.
C24_ExactlyGeometryCallsRemoved ==
    pc = "remove_geometry_calls" =>
        LET L == splitlines(source)
            dropped == Len(SelectSeq(L, IsBlank))
                       - Len(SelectSeq(returned_lines, IsBlank))
        IN  /\ raised = None
            /\ \A k \in DOMAIN returned_lines :
                   ~GeometryMatch(returned_lines[k])
            /\ SelectSeq(returned_lines, IsCodeLine) = SelectSeq(L, IsCodeLine)
            /\ dropped >= 0
            /\ dropped <= Cardinality(CallsBetweenBlanks(L))

----------------------------------------------------------------------------
(* Specification SpecRun: run(args) of bout_v6_coordinates_upgrader.py and  *)
(* of bout_v5_macro_upgrader.py on at most MaxRunFiles files, each readable *)
(* or not. apply_or_display_patch is imported from boutupgrader/common.py;  *)
(* a call of it is the patch decision of the file.                          *)

RunContents == {FileOf(<<CodeLine>>), FileOf(<<UseOld>>), FileOf(<<SetDx>>)}

RunRules == <<RuleVariable>>

InitRun ==
    /\ pc \in {"coordinates_for", "macro_for"}
    /\ \E n \in 1..MaxRunFiles :
           /\ n <= Len(AllFiles)
           /\ args = [files |-> SubSeq(AllFiles, 1, n), force |-> FALSE,
                      quiet |-> FALSE, patch_only |-> FALSE]
           /\ disk \in [{AllFiles[k] : k \in 1..n} ->
                            [contents : RunContents, readable : BOOLEAN,
                             writable : {TRUE}]]
    /\ filenumber = 1
    /\ replacements = IF pc = "macro_for" THEN RunRules ELSE <<>>
    /\ patch = <<>>
    /\ replied = <<>>
    /\ written = {}
    /\ decided = <<>>
    /\ source = <<>>
    /\ modified = <<>>
    /\ raised = None
    /\ printed = <<>>
    /\ macro_blocks = <<>>
    /\ lines_to_remove = {}
    /\ again = None
    /\ NoRest

RunUnchanged ==
    UNCHANGED <<replacements, macro_blocks, lines_to_remove, again, args, disk,
                patch, replied, written, restVars>>

\* coordinates: contents = pathlib.Path(filename).read_text(), and the
\* except clause that prints and continues
CoordinatesReadText ==
    /\ pc = "coordinates_for"
    /\ filenumber \in DOMAIN args.files
    /\ IF disk[filename].readable
       THEN /\ source' = disk[filename].contents
            /\ pc' = "coordinates_modify"
            /\ UNCHANGED <<filenumber, printed>>
       ELSE /\ printed' = Append(printed, <<"Error reading ", filename>>)
            /\ filenumber' = filenumber + 1
            /\ UNCHANGED <<source, pc>>
    /\ UNCHANGED <<modified, raised, decided>>
    /\ RunUnchanged

\* coordinates: modified_contents = modify(contents)
CoordinatesModify ==
    /\ pc = "coordinates_modify"
    /\ \E r \in {modify(source)} :
           IF Raises(r)
           THEN raised' = Some(r.exc) /\ pc' = "exit" /\ UNCHANGED modified
           ELSE modified' = r.value /\ pc' = "coordinates_patch"
                                    /\ UNCHANGED raised
    /\ UNCHANGED <<source, filenumber, printed, decided>>
    /\ RunUnchanged

\* coordinates: apply_or_display_patch(...) and, inside the loop,
\* return modified_contents
CoordinatesPatchAndReturn ==
    /\ pc = "coordinates_patch"
    /\ decided' = Decide(filename, modified)
    /\ pc' = "returned"
    /\ UNCHANGED <<source, modified, raised, filenumber, printed>>
    /\ RunUnchanged

\* the loop has taken every file: run returns None
RunLoopEnds ==
    /\ pc \in {"coordinates_for", "macro_for"}
    /\ filenumber = Len(args.files) + 1
    /\ pc' = "returned"
    /\ UNCHANGED <<source, modified, raised, filenumber, printed, decided>>
    /\ RunUnchanged

\* macro: with open(filename) as f: contents = f.read(), outside any try
MacroOpenAndRead ==
    /\ pc = "macro_for"
    /\ filenumber \in DOMAIN args.files
    /\ IF disk[filename].readable
       THEN source' = disk[filename].contents /\ pc' = "macro_fixes"
                                              /\ UNCHANGED raised
       ELSE raised' = Some("OSError") /\ pc' = "exit" /\ UNCHANGED source
    /\ UNCHANGED <<modified, filenumber, printed, decided>>
    /\ RunUnchanged

\* macro: modified = apply_fixes(MACRO_REPLACEMENTS, contents)
MacroApplyFixes ==
    /\ pc = "macro_fixes"
    /\ \E st \in {apply_fixes(replacements, source)} :
           /\ modified' = st.modified
           /\ printed' = printed \o st.printed
           /\ raised' = st.raised
           /\ pc' = IF st.raised = None THEN "macro_patch" ELSE "exit"
    /\ UNCHANGED <<source, filenumber, decided>>
    /\ RunUnchanged

\* macro: apply_or_display_patch(...), then the next file
MacroPatch ==
    /\ pc = "macro_patch"
    /\ decided' = Decide(filename, modified)
    /\ pc' = "macro_for"
    /\ filenumber' = filenumber + 1
    /\ UNCHANGED <<source, modified, raised, printed>>
    /\ RunUnchanged

NextRun ==
    \/ CoordinatesReadText
    \/ CoordinatesModify
    \/ CoordinatesPatchAndReturn
    \/ RunLoopEnds
    \/ MacroOpenAndRead
    \/ MacroApplyFixes
    \/ MacroPatch

SpecRun == InitRun /\ [][NextRun]_vars

\* C26 (as stated): the files that have their patch decision are, at every
\* moment, the readable ones among the files before the one in hand, and
\* when run has ended every readable file of args.files has its decision.
C26_EveryFileInOrder ==
    /\ \A k \in DOMAIN args.files :
           args.files[k] \in DOMAIN decided =>
               /\ disk[args.files[k]].readable
               /\ k <= filenumber
               /\ \A j \in 1..(k - 1) :
                      disk[args.files[j]].readable =>
                          args.files[j] \in DOMAIN decided
    /\ pc \in {"returned", "exit"} =>
           \A k \in DOMAIN args.files :
               disk[args.files[k]].readable =>
                   args.files[k] \in DOMAIN decided
====
